---- MODULE Spec2Model ----
(***************************************************************************)
(* Row enrichment pipeline of ai-serch-google-sheets: the stage commands   *)
(* of src/src/cli.py, the stage entry points and the stage marker of       *)
(* src/src/pipeline/enricher.py, and the decision cascade and the dossier  *)
(* retry loop of src/src/nlp/llm.py.                                       *)
(*                                                                         *)
(* Python strings whose characters matter (the stage marker) are sequences *)
(* of one-character strings.  Other texts are tokens, or records carrying  *)
(* a length where a slice [:n] matters.                                    *)
(***************************************************************************)
EXTENDS Integers, Sequences, FiniteSets, TLC

(***************************************************************************)
(* Bounds of the model.                                                    *)
(***************************************************************************)
MaxMarkerLen == 3
MaxItemLen == 2
MaxRows == 3
MaxRuns == 2
LongName == 600

(***************************************************************************)
(* Characters and strings.                                                 *)
(***************************************************************************)
Digits == {"0", "1", "2", "3", "4", "5", "6", "7", "8", "9"}

DigitVal(c) ==
    CASE c = "0" -> 0 [] c = "1" -> 1 [] c = "2" -> 2 [] c = "3" -> 3
      [] c = "4" -> 4 [] c = "5" -> 5 [] c = "6" -> 6 [] c = "7" -> 7
      [] c = "8" -> 8 [] c = "9" -> 9

\* code point of a character, as Python compares strings
Ord(c) ==
    CASE c = " " -> 32
      [] c = "," -> 44
      [] c \in Digits -> 48 + DigitVal(c)
      [] c = "a" -> 97
      [] c = "b" -> 98

\* str.isdigit(): non-empty and every character a digit
IsDigit(v) == Len(v) > 0 /\ \A i \in 1..Len(v) : v[i] \in Digits

RECURSIVE ToInt(_)
\* int(value) of a digit string
ToInt(v) ==
    IF v = <<>> THEN 0
    ELSE 10 * ToInt(SubSeq(v, 1, Len(v) - 1)) + DigitVal(v[Len(v)])

RECURSIVE StrLess(_, _)
\* a < b for Python strings (lexicographic on code points)
StrLess(a, b) ==
    IF a = <<>> THEN b # <<>>
    ELSE IF b = <<>> THEN FALSE
    ELSE IF Ord(Head(a)) # Ord(Head(b)) THEN Ord(Head(a)) < Ord(Head(b))
    ELSE StrLess(Tail(a), Tail(b))

RECURSIVE LStrip(_)
LStrip(v) == IF v # <<>> /\ Head(v) = " " THEN LStrip(Tail(v)) ELSE v

RECURSIVE RStrip(_)
RStrip(v) ==
    IF v # <<>> /\ v[Len(v)] = " " THEN RStrip(SubSeq(v, 1, Len(v) - 1)) ELSE v

\* str.strip()
Strip(v) == RStrip(LStrip(v))

RECURSIVE SplitComma(_, _)
\* str.split(","): cur is the item being read
SplitComma(v, cur) ==
    IF v = <<>> THEN <<cur>>
    ELSE IF Head(v) = "," THEN <<cur>> \o SplitComma(Tail(v), <<>>)
    ELSE SplitComma(Tail(v), Append(cur, Head(v)))

RECURSIVE JoinComma(_)
\* ",".join(items)
JoinComma(items) ==
    IF items = <<>> THEN <<>>
    ELSE IF Len(items) = 1 THEN items[1]
    ELSE items[1] \o <<",">> \o JoinComma(Tail(items))

(***************************************************************************)
(* The stage marker, enricher.py _mark_stage.  A marker is None, a string  *)
(* or a list of strings.                                                   *)
(***************************************************************************)
NoneMarker == [kind |-> "none", val |-> <<>>]
StrMarker(s) == [kind |-> "str", val |-> s]
ListMarker(l) == [kind |-> "list", val |-> l]

\* _sort_key: (int(value), value) for digit strings, else (99, value)
SortKeyNum(value) == IF IsDigit(value) THEN ToInt(value) ELSE 99

\* tuple comparison of two sort keys
SortKeyLess(a, b) ==
    \/ SortKeyNum(a) < SortKeyNum(b)
    \/ SortKeyNum(a) = SortKeyNum(b) /\ StrLess(a, b)

RECURSIVE SortedStages(_)
\* sorted(stages, key=_sort_key)
SortedStages(S) ==
    IF S = {} THEN <<>>
    ELSE LET m == CHOOSE x \in S : \A y \in S \ {x} : SortKeyLess(x, y)
         IN  <<m>> \o SortedStages(S \ {m})

\* the items the loop of _mark_stage iterates over
MarkerItems(marker) ==
    IF marker.kind = "none" \/ marker.val = <<>> THEN <<>>
    ELSE IF marker.kind = "list" THEN marker.val
    ELSE SplitComma(marker.val, <<>>)

\* the set built by _mark_stage before sorting
StageSet(marker, stage) ==
    LET items == MarkerItems(marker)
    IN  ({Strip(items[i]) : i \in 1..Len(items)} \ {<<>>}) \cup {stage}

\* a plausible slip: the set is serialized in insertion order of the new id
MarkStageAppend(marker, stage) ==
    LET items == MarkerItems(marker)
        old == {Strip(items[i]) : i \in 1..Len(items)} \ {<<>>}
    IN  JoinComma(SortedStages(old) \o <<stage>>)

MarkStage(marker, stage) == JoinComma(SortedStages(StageSet(marker, stage)))

(***************************************************************************)
(* Texts.  A text is the sequence of the pieces it was built from and its  *)
(* length in characters; a slice keeps the pieces and cuts the length.     *)
(***************************************************************************)
Lit(piece, n) == [s |-> <<piece>>, n |-> n]
EmptyTxt == [s |-> <<>>, n |-> 0]
Concat(a, b) == [s |-> a.s \o b.s, n |-> a.n + b.n]

\* text[:k]
Slice(t, k) == IF t.n <= k THEN t ELSE [s |-> t.s, n |-> k]

(***************************************************************************)
(* Rows.  A row is a Python dict: a function from field names to values.   *)
(* "__row" holds an integer, "updated_stages" a marker string, every other *)
(* field a text.                                                           *)
(***************************************************************************)
\* row.get(field, default)
Get(row, field, default) == IF field \in DOMAIN row THEN row[field] ELSE default

\* {**row, field: value} and row[field] = value
With(row, field, value) == (field :> value) @@ row

\* row.pop(field, None) for each of the fields
PopAll(row, fields) == [f \in DOMAIN row \ fields |-> row[f]]

\* the value a blank cell has
Blank(field) == IF field = "updated_stages" THEN <<>> ELSE EmptyTxt

\* bool(row.get(field)): a missing field, "" and 0 are falsy
Truthy(row, field) ==
    /\ field \in DOMAIN row
    /\ IF field = "__row" THEN row[field] # 0 ELSE row[field] # Blank(field)

\* row.get("updated_stages") as the argument of _mark_stage
MarkerOf(row) ==
    IF "updated_stages" \in DOMAIN row THEN StrMarker(row["updated_stages"])
    ELSE NoneMarker

(***************************************************************************)
(* cli.py: _merge_rows and _select_rows.                                   *)
(***************************************************************************)
\* variant: the key is the position, whatever the row carries
RowKeyByPosition(row, default) == default

\* int(row.get("__row", default))
RowKey(row, default) == Get(row, "__row", default)

\* a plausible slip: the loop looks rows up by position instead of by key
RECURSIVE MergeRowsByPosition(_, _)
MergeRowsByPosition(all_rows, updates) ==
    IF all_rows = <<>> THEN <<>>
    ELSE LET n == Len(all_rows)
             original == all_rows[n]
         IN  Append(MergeRowsByPosition(SubSeq(all_rows, 1, n - 1), updates),
                    IF n \in DOMAIN updates THEN updates[n] ELSE original)

RECURSIVE MergeRows(_, _)
\* the loop of _merge_rows: final_rows.append(updates.get(row_key, original))
MergeRows(all_rows, updates) ==
    IF all_rows = <<>> THEN <<>>
    ELSE LET n == Len(all_rows)
             original == all_rows[n]
             row_key == RowKey(original, 0)
         IN  Append(MergeRows(SubSeq(all_rows, 1, n - 1), updates),
                    IF row_key \in DOMAIN updates THEN updates[row_key]
                    ELSE original)

RECURSIVE Filter(_, _)
\* [row for row in rows if not row.get(resume_field)]
Filter(rows, resume_field) ==
    IF rows = <<>> THEN <<>>
    ELSE LET rest == Filter(Tail(rows), resume_field)
         IN  IF Truthy(Head(rows), resume_field) THEN rest
             ELSE <<Head(rows)>> \o rest

\* rows[:limit]
Take(rows, limit) == SubSeq(rows, 1, IF limit < Len(rows) THEN limit ELSE Len(rows))

NoField == "None"

\* a plausible slip: the resume filter is not applied
SelectRowsNoResume(rows, resume_field, limit) ==
    IF limit > 0 THEN Take(rows, limit) ELSE rows

\* _select_rows: limit 0 stands for None
SelectRows(rows, resume_field, limit) ==
    LET selected == IF resume_field # NoField THEN Filter(rows, resume_field)
                    ELSE rows
    IN  IF limit > 0 THEN Take(selected, limit) ELSE selected

(***************************************************************************)
(* google_sheet.py: the worksheet is its header (the set of columns) and   *)
(* its data rows.                                                          *)
(***************************************************************************)
max_companies == 0

\* SheetClient.fetch_rows(): one record per data row, "__row" its sheet row
FetchRows(sh) ==
    LET records == [i \in 1..Len(sh.rows) |-> With(sh.rows[i], "__row", i + 1)]
    IN  IF max_companies > 0 THEN Take(records, max_companies) ELSE records

\* the columns of the DataFrame built from the records
FrameColumns(records) == UNION {DOMAIN records[i] : i \in 1..Len(records)}

\* variant: the frame is written with all of its columns
BatchUpdateKeepsKey(sh, records) ==
    IF records = <<>> THEN sh
    ELSE LET columns == sh.header \cup FrameColumns(records)
         IN  [header |-> columns,
              rows |-> [i \in 1..Len(records) |->
                          [c \in columns |-> Get(records[i], c, Blank(c))]]]

\* SheetClient.batch_update(records): the worksheet is cleared and rewritten
\* with the header columns followed by the frame's new ones, the frame's
\* "__row" dropped, missing cells blank
BatchUpdate(sh, records) ==
    IF records = <<>> THEN sh
    ELSE LET columns == sh.header \cup (FrameColumns(records) \ {"__row"})
         IN  [header |-> columns,
              rows |-> [i \in 1..Len(records) |->
                          [c \in columns |->
                              Get(PopAll(records[i], {"__row"}), c, Blank(c))]]]

\* cli.py _export_snapshot: the rows without "__row"
ExportSnapshot(rows) == [i \in 1..Len(rows) |-> PopAll(rows[i], {"__row"})]

(***************************************************************************)
(* enricher.py: the stage entry points, for the profile "software".        *)
(***************************************************************************)
Now == Lit("now", 32)
UnknownName == Lit("Unknown", 7)
Sentinel == Lit("No dossier insights found.", 26)

\* company.name or company.domain or "Unknown"
Identifier(row) ==
    IF Truthy(row, "company") THEN row["company"] ELSE UnknownName

DossierFields ==
    {"dossier_summary", "dossier_wins", "dossier_setbacks", "dossier_regulatory",
     "dossier_workforce", "dossier_quotes", "dossier_sources", "dossier_error"}

ObsoleteFields ==
    {"summary", "insights", "latest_news", "articles", "linkedin_posts",
     "profile_refreshed_at", "media_refreshed_at", "dossier_refreshed_at"}

\* variant: the dossier fields are assigned, not defaulted
CollectProfileClearsDossier(row, decision) ==
    LET r1 == With(With(row, "baseline_summary", decision.summary),
                   "insight_bullet", decision.insights)
        r2 == [f \in DOMAIN r1 \cup DossierFields |->
                 IF f \in DossierFields THEN EmptyTxt ELSE r1[f]]
        r3 == With(With(r2, "updated_stages", MarkStage(MarkerOf(row), <<"1">>)),
                   "last_updated", Now)
    IN  PopAll(r3, ObsoleteFields)

\* collect_profile: decision is the LLMEnrichment of the cascade
CollectProfile(row, decision) ==
    LET r1 == With(With(row, "baseline_summary", decision.summary),
                   "insight_bullet", decision.insights)
        r2 == [f \in DOMAIN r1 \cup DossierFields |->
                 IF f \in DOMAIN r1 THEN r1[f] ELSE EmptyTxt]
        r3 == With(With(r2, "updated_stages", MarkStage(MarkerOf(row), <<"1">>)),
                   "last_updated", Now)
    IN  PopAll(r3, ObsoleteFields)

\* collect_media: news_highlight is _highlight_from_articles(news_items)
CollectMedia(row, news_highlight) ==
    LET r1 == With(row, "news_highlight", news_highlight)
        r2 == With(With(r1, "updated_stages", MarkStage(MarkerOf(row), <<"2">>)),
                   "last_updated", Now)
    IN  PopAll(r2, {"articles", "latest_news", "linkedin_posts", "media_refreshed_at"})

RECURSIVE JoinTxt(_, _, _)
\* sep.join(prefix + item for item in items)
JoinTxt(items, prefix, sep) ==
    IF items = <<>> THEN EmptyTxt
    ELSE IF Len(items) = 1 THEN Concat(prefix, items[1])
    ELSE Concat(Concat(Concat(prefix, items[1]), sep), JoinTxt(Tail(items), prefix, sep))

\* _format: "\n".join(f"- {item}" for item in items) if items else ""
FormatBullets(items) == JoinTxt(items, Lit("- ", 2), Lit("\n", 1))

DossierPayload(summary, wins, sources) ==
    [summary |-> summary, wins |-> wins, setbacks |-> <<>>,
     workforce_changes |-> <<>>, regulatory |-> <<>>, notable_quotes |-> <<>>,
     sources |-> sources]

\* _heuristic_dossier_from_row; which list an item goes to is decided by
\* keywords of its text: here every highlight is a win
HeuristicDossierFromRow(row, error_note) ==
    LET base == IF Truthy(row, "baseline_summary") THEN <<row["baseline_summary"]>>
                ELSE <<>>
        ins == IF Truthy(row, "insight_bullet")
               THEN <<Concat(Lit("Insights: ", 10), row["insight_bullet"])>>
               ELSE <<>>
        parts == base \o ins
        heuristic_summary ==
            IF parts = <<>>
            THEN Lit("Limited public data; refer to summary/insights.", 47)
            ELSE JoinTxt(parts, EmptyTxt, Lit("\n", 1))
        news == IF Truthy(row, "news_highlight") THEN <<row["news_highlight"]>>
                ELSE <<>>
        wins == IF news = <<>> /\ Truthy(row, "insight_bullet")
                THEN <<row["insight_bullet"]>> ELSE news
        fallback_error ==
            IF error_note # EmptyTxt THEN error_note
            ELSE Lit("Perplexity returned empty payload; populated via heuristic signals.", 67)
    IN  [dossier_summary |-> Slice(heuristic_summary, 500),
         dossier_wins |-> FormatBullets(wins),
         dossier_setbacks |-> EmptyTxt,
         dossier_workforce |-> EmptyTxt,
         dossier_regulatory |-> EmptyTxt,
         dossier_quotes |-> EmptyTxt,
         dossier_sources |-> EmptyTxt,
         dossier_error |-> Slice(fallback_error, 500)]

\* str(exc) of the RuntimeError build_company_dossier raises
RetriesMessage(row) ==
    Concat(Lit("Perplexity dossier failed after retries for ", 44), Identifier(row))

\* the payload collect_dossier builds in its except branch
FallbackPayload(error_note) ==
    LET fallback_summary ==
            IF error_note # EmptyTxt
            THEN Concat(Concat(Lit("Dossier unavailable.", 20), Lit(" Reason: ", 9)),
                        error_note)
            ELSE Lit("Dossier unavailable.", 20)
    IN  DossierPayload(Slice(fallback_summary, 500), <<>>, <<>>)

\* a plausible slip: the error note is stored uncut
DossierResultNoSlice(row, payload, error_note) ==
    LET direct ==
            [dossier_summary |-> payload.summary,
             dossier_wins |-> FormatBullets(payload.wins),
             dossier_setbacks |-> FormatBullets(payload.setbacks),
             dossier_workforce |-> FormatBullets(payload.workforce_changes),
             dossier_regulatory |-> FormatBullets(payload.regulatory),
             dossier_quotes |-> FormatBullets(payload.notable_quotes),
             dossier_sources |-> JoinTxt(payload.sources, EmptyTxt, Lit("; ", 2)),
             dossier_error |-> error_note]
        placeholder ==
            /\ payload.summary = Sentinel
            /\ payload.wins = <<>> /\ payload.setbacks = <<>>
            /\ payload.workforce_changes = <<>> /\ payload.regulatory = <<>>
            /\ payload.notable_quotes = <<>>
        fields == IF placeholder THEN HeuristicDossierFromRow(row, error_note)
                  ELSE direct
        r1 == [f \in DOMAIN row \cup DossierFields |->
                 IF f \in DossierFields THEN fields[f] ELSE row[f]]
    IN  With(With(r1, "updated_stages", MarkStage(MarkerOf(row), <<"3">>)),
             "last_updated", Now)

\* collect_dossier from line 197 on: the result row for a payload and an
\* error note
DossierResult(row, payload, error_note) ==
    LET direct ==
            [dossier_summary |-> payload.summary,
             dossier_wins |-> FormatBullets(payload.wins),
             dossier_setbacks |-> FormatBullets(payload.setbacks),
             dossier_workforce |-> FormatBullets(payload.workforce_changes),
             dossier_regulatory |-> FormatBullets(payload.regulatory),
             dossier_quotes |-> FormatBullets(payload.notable_quotes),
             dossier_sources |-> JoinTxt(payload.sources, EmptyTxt, Lit("; ", 2)),
             dossier_error |-> Slice(error_note, 500)]
        placeholder ==
            /\ payload.summary = Sentinel
            /\ payload.wins = <<>> /\ payload.setbacks = <<>>
            /\ payload.workforce_changes = <<>> /\ payload.regulatory = <<>>
            /\ payload.notable_quotes = <<>>
        fields == IF placeholder THEN HeuristicDossierFromRow(row, error_note)
                  ELSE direct
        r1 == [f \in DOMAIN row \cup DossierFields |->
                 IF f \in DossierFields THEN fields[f] ELSE row[f]]
    IN  With(With(r1, "updated_stages", MarkStage(MarkerOf(row), <<"3">>)),
             "last_updated", Now)

(***************************************************************************)
(* State.                                                                  *)
(***************************************************************************)
VARIABLES
    \* two successive calls of _mark_stage
    marker,      \* the existing marker handed to the first call
    stage,       \* the stage id
    once,        \* _mark_stage(marker, stage)
    twice,       \* _mark_stage(once, stage)
    mkPc,        \* "start", "once", "twice"
    \* the stage commands of cli.py
    sheet,       \* the worksheet: [header, rows]
    session,     \* the number of commands of the session
    runs,        \* commands started so far
    pc,          \* "idle", "pool" (scrape), "loop" (media, dossier), "dossier"
    cmd,         \* the options of the running command
    status,      \* how the last command ended
    all_rows,    \* sheet.fetch_rows()
    target_rows, \* _select_rows(all_rows, ...)
    updates,     \* the update map: row key -> enriched row
    final_rows,  \* _merge_rows(all_rows, updates)
    jobs,        \* per target row: the future (scrape) or the loop iteration
    drained,     \* the jobs as_completed has yielded to the loop, in order
    idx,         \* the loop index of media and dossier
    exported,    \* the rows of the exported snapshot
    \* one call of build_summary_and_insights, then one lenient parse
    settings,    \* openai_api_key and perplexity_api_key
    profile,     \* "software", "iso_msp" or "enterprise"
    context,     \* _build_context_payload(...)
    casPc,       \* "openai", "perplexity", "heuristic", "done", "parsed"
    calls,       \* the strategies invoked so far, with what each got and gave
    returned,    \* what build_summary_and_insights returned or raised
    lenientIn,   \* the content handed to the lenient parse
    lenient,     \* _parse_llm_json(profile, lenientIn)
    \* one call of a helper function
    callPc,      \* "call" before the call, "done" after it
    callIn,      \* the arguments
    callOut      \* what the call returned

markVars == <<marker, stage, once, twice, mkPc>>

runVars == <<sheet, session, runs, pc, cmd, status, all_rows, target_rows, updates,
             final_rows, jobs, drained, idx, exported>>

cascadeVars == <<settings, profile, context, casPc, calls, returned, lenientIn,
                 lenient>>

callVars == <<callPc, callIn, callOut>>

vars == <<markVars, runVars, cascadeVars, callVars>>

\* what the stage commands leave alone, and what _mark_stage leaves alone
notRunVars == <<markVars, cascadeVars, callVars>>
notMarkVars == <<runVars, cascadeVars, callVars>>
notCascadeVars == <<markVars, runVars, callVars>>
notCallVars == <<markVars, runVars, cascadeVars>>

MarkIdle ==
    /\ marker = NoneMarker
    /\ stage = <<>>
    /\ once = <<>>
    /\ twice = <<>>
    /\ mkPc = "off"

NoCmd == [stage |-> 0, resume |-> FALSE, limit |-> 0, key |-> FALSE]

RunIdle ==
    /\ sheet = [header |-> {}, rows |-> <<>>]
    /\ session = 0
    /\ runs = 0
    /\ pc = "off"
    /\ cmd = NoCmd
    /\ status = "none"
    /\ all_rows = <<>>
    /\ target_rows = <<>>
    /\ updates = <<>>
    /\ final_rows = <<>>
    /\ jobs = <<>>
    /\ drained = <<>>
    /\ idx = 0
    /\ exported = <<>>

(***************************************************************************)
(* Values of the decision cascade (nlp/llm.py).                            *)
(***************************************************************************)
\* a str or None: the content of a provider's message
NoContent == [none |-> TRUE, lines |-> <<>>]
Str(lines) == [none |-> FALSE, lines |-> lines]

\* what a function returned or raised
NoDecision ==
    [summary |-> EmptyTxt, insights |-> "", business_model |-> "",
     market_focus |-> "", raw_response |-> NoContent]
Ok(value) == [kind |-> "ok", error |-> "", value |-> value]
Raise(error) == [kind |-> "raise", error |-> error, value |-> NoDecision]
NotCalled == [kind |-> "none", error |-> "", value |-> NoDecision]

CascadeIdle ==
    /\ settings = [openai_api_key |-> NoField, perplexity_api_key |-> NoField]
    /\ profile = ""
    /\ context = [site_text |-> EmptyTxt]
    /\ casPc = "off"
    /\ calls = <<>>
    /\ returned = NotCalled
    /\ lenientIn = NoContent
    /\ lenient = NotCalled

CallIdle ==
    /\ callPc = "off"
    /\ callIn = <<>>
    /\ callOut = <<>>

(***************************************************************************)
(* Inputs of _mark_stage.                                                  *)
(***************************************************************************)
MarkerAlphabet == {"1", "a", ",", " "}

\* the strings over an alphabet of length at most n
RECURSIVE StringsUpTo(_, _)
StringsUpTo(A, n) ==
    IF n = 0 THEN {<<>>}
    ELSE LET shorter == StringsUpTo(A, n - 1)
         IN  shorter \cup {Append(s, c) : s \in shorter, c \in A}

\* the stage ids the stage entry points pass (enricher.py lines 92, 162, 219)
StageIds == {<<"1">>, <<"2">>, <<"3">>}

MarkerItemInputs == StringsUpTo(MarkerAlphabet, MaxItemLen)

\* lists of at most two items
MarkerListInputs ==
    {<<>>} \cup {<<a>> : a \in MarkerItemInputs}
           \cup {<<a, b>> : a \in MarkerItemInputs, b \in MarkerItemInputs}

\* stage ids of one, two and three digits and ids that are not numbers
StageIdSamples ==
    {<<"2">>, <<"9", "9">>, <<"1", "0", "0">>, <<"a">>, <<"b">>}

\* markers that hold two of the sample ids, and the marker "2,3"
MarkerSampleInputs ==
    {ListMarker(<<a, b>>) : a \in StageIdSamples, b \in StageIdSamples}
        \cup {StrMarker(<<"2", ",", "3">>)}

MarkerInputs ==
    {NoneMarker}
        \cup {StrMarker(s) : s \in StringsUpTo(MarkerAlphabet, MaxMarkerLen)}
        \cup {ListMarker(l) : l \in MarkerListInputs}
        \cup MarkerSampleInputs

MarkInit ==
    /\ marker \in MarkerInputs
    /\ stage \in StageIds
    /\ once = <<>>
    /\ twice = <<>>
    /\ mkPc = "start"
    /\ RunIdle
    /\ CascadeIdle
    /\ CallIdle

\* updated = _mark_stage(marker, stage)
MarkOnce ==
    /\ mkPc = "start"
    /\ once' = MarkStage(marker, stage)
    /\ mkPc' = "once"
    /\ UNCHANGED <<marker, stage, twice, notMarkVars>>

\* _mark_stage(updated, stage): the marker written by a stage is read back
MarkTwice ==
    /\ mkPc = "once"
    /\ twice' = MarkStage(StrMarker(once), stage)
    /\ mkPc' = "twice"
    /\ UNCHANGED <<marker, stage, once, notMarkVars>>

MarkNext == MarkOnce \/ MarkTwice

SpecMark == MarkInit /\ [][MarkNext]_vars

(***************************************************************************)
(* The stage commands: scrape (stage 1, a thread pool), media (stage 2)    *)
(* and dossier (stage 3), both a sequential loop.                          *)
(***************************************************************************)
\* Settings.worker_count
worker_count == 3
\* build_company_dossier: range(3)
Attempts == 3
\* wait_time = 1.5 * (attempt + 1), in tenths of a second
BackoffTenths == 15

\* the company name of the i-th row: the first is long enough for the slices
NameLen(i) == IF i = 1 THEN LongName ELSE i

\* a sheet of n companies no stage has processed yet
InitialSheet(n) ==
    [header |-> {"company"},
     rows |-> [i \in 1..n |-> [f \in {"company"} |-> Lit("company", NameLen(i))]]]

ResumeField(st) ==
    CASE st = 1 -> "baseline_summary"
      [] st = 2 -> "news_highlight"
      [] st = 3 -> "dossier_summary"

NoRow == <<>>

\* payload: the payload build_company_dossier returned, if it returned
NewJob == [st |-> "pending", result |-> NoRow, calls |-> 0, sleeps |-> <<>>,
           last_error |-> 0, raised |-> 0, payload |-> <<>>]

CommandIdle ==
    /\ runs = 0
    /\ pc = "idle"
    /\ cmd = NoCmd
    /\ status = "none"
    /\ all_rows = <<>>
    /\ target_rows = <<>>
    /\ updates = <<>>
    /\ final_rows = <<>>
    /\ jobs = <<>>
    /\ drained = <<>>
    /\ idx = 0
    /\ exported = <<>>

\* a session of up to MaxRuns commands on a sheet of at most two companies
RunInit ==
    /\ sheet \in {InitialSheet(n) : n \in 0..2}
    /\ session = MaxRuns
    /\ CommandIdle

\* one command on a sheet of up to MaxRows companies
BatchInit ==
    /\ sheet \in {InitialSheet(n) : n \in 0..MaxRows}
    /\ session = 1
    /\ CommandIdle

\* variant: the dossier command reads the sheet before it looks at the key
StartCommandFetchesFirst(st, resume, limit, key) ==
    /\ pc = "idle"
    /\ runs < session
    /\ runs' = runs + 1
    /\ cmd' = [stage |-> st, resume |-> resume, limit |-> limit, key |-> key]
    /\ updates' = <<>>
    /\ final_rows' = <<>>
    /\ drained' = <<>>
    /\ idx' = 0
    /\ UNCHANGED <<sheet, session, exported, notRunVars>>
    /\ IF st = 3 /\ ~key
       THEN /\ status' = "config_error"
            /\ pc' = "idle"
            /\ all_rows' = FetchRows(sheet)
            /\ target_rows' = <<>>
            /\ jobs' = <<>>
       ELSE LET rows == FetchRows(sheet)
                target == SelectRows(rows,
                                     IF resume THEN ResumeField(st) ELSE NoField,
                                     limit)
            IN  /\ all_rows' = rows
                /\ target_rows' = IF rows = <<>> THEN <<>> ELSE target
                /\ jobs' = IF rows = <<>> THEN <<>>
                           ELSE [j \in 1..Len(target) |-> NewJob]
                /\ status' = IF rows = <<>> THEN "empty"
                             ELSE IF target = <<>> THEN "no_rows"
                             ELSE "running"
                /\ pc' = IF rows = <<>> \/ target = <<>> THEN "idle"
                         ELSE IF st = 1 THEN "pool" ELSE "loop"

\* the command from its start to the submission of the jobs (scrape) or to
\* the head of the loop (media, dossier); key: PERPLEXITY_API_KEY is set
StartCommand(st, resume, limit, key) ==
    /\ pc = "idle"
    /\ runs < session
    /\ runs' = runs + 1
    /\ cmd' = [stage |-> st, resume |-> resume, limit |-> limit, key |-> key]
    /\ updates' = <<>>
    /\ final_rows' = <<>>
    /\ drained' = <<>>
    /\ idx' = 0
    /\ UNCHANGED <<sheet, session, exported, notRunVars>>
    /\ IF st = 3 /\ ~key
       THEN /\ status' = "config_error"
            /\ pc' = "idle"
            /\ all_rows' = <<>>
            /\ target_rows' = <<>>
            /\ jobs' = <<>>
       ELSE LET rows == FetchRows(sheet)
                target == SelectRows(rows,
                                     IF resume THEN ResumeField(st) ELSE NoField,
                                     limit)
            IN  /\ all_rows' = rows
                /\ target_rows' = IF rows = <<>> THEN <<>> ELSE target
                /\ jobs' = IF rows = <<>> THEN <<>>
                           ELSE [j \in 1..Len(target) |-> NewJob]
                /\ status' = IF rows = <<>> THEN "empty"
                             ELSE IF target = <<>> THEN "no_rows"
                             ELSE "running"
                /\ pc' = IF rows = <<>> \/ target = <<>> THEN "idle"
                         ELSE IF st = 1 THEN "pool" ELSE "loop"

\* the decision build_summary_and_insights returns
Decision == [summary |-> Lit("summary", 7), insights |-> Lit("insights", 8)]

Running == {j \in DOMAIN jobs : jobs[j].st = "running"}

\* a pool thread takes the next submitted job
WorkerStart(j) ==
    /\ pc = "pool"
    /\ j \in DOMAIN jobs
    /\ jobs[j].st = "pending"
    /\ \A k \in 1..(j - 1) : jobs[k].st # "pending"
    /\ Cardinality(Running) < worker_count
    /\ jobs' = [jobs EXCEPT ![j].st = "running"]
    /\ UNCHANGED <<sheet, session, runs, pc, cmd, status, all_rows, target_rows, updates,
                   final_rows, drained, idx, exported, notRunVars>>

\* a plausible slip: the pool thread stores its result in the shared map
WorkerFinishWritesMap(j, raises) ==
    /\ pc = "pool"
    /\ j \in DOMAIN jobs
    /\ jobs[j].st = "running"
    /\ jobs' = IF raises THEN [jobs EXCEPT ![j].st = "exc"]
               ELSE [jobs EXCEPT ![j].st = "ok",
                                 ![j].result = CollectProfile(target_rows[j], Decision)]
    /\ updates' = IF raises THEN updates
                  ELSE (RowKey(target_rows[j], j) :> CollectProfile(target_rows[j], Decision))
                       @@ updates
    /\ UNCHANGED <<sheet, session, runs, pc, cmd, status, all_rows, target_rows,
                   final_rows, drained, idx, exported, notRunVars>>

\* collect_profile returns or raises in the pool thread; the future keeps it
WorkerFinish(j, raises) ==
    /\ pc = "pool"
    /\ j \in DOMAIN jobs
    /\ jobs[j].st = "running"
    /\ jobs' = IF raises THEN [jobs EXCEPT ![j].st = "exc"]
               ELSE [jobs EXCEPT ![j].st = "ok",
                                 ![j].result = CollectProfile(target_rows[j], Decision)]
    /\ UNCHANGED <<sheet, session, runs, pc, cmd, status, all_rows, target_rows, updates,
                   final_rows, drained, idx, exported, notRunVars>>

\* variant: the sheet is rewritten as each result comes in
CollectWritesThrough(j) ==
    /\ pc = "pool"
    /\ j \in DOMAIN jobs
    /\ \A k \in 1..Len(drained) : drained[k] # j
    /\ jobs[j].st \in {"ok", "exc"}
    /\ drained' = Append(drained, j)
    /\ LET row_key == RowKey(target_rows[j], (j - 1) + 1)
       IN  updates' = IF jobs[j].st = "exc" THEN updates
                      ELSE (row_key :> jobs[j].result) @@ updates
    /\ sheet' = IF updates' = <<>> THEN sheet
                ELSE BatchUpdate(sheet, MergeRows(all_rows, updates'))
    /\ UNCHANGED <<session, runs, pc, cmd, status, all_rows, target_rows,
                   final_rows, jobs, idx, exported, notRunVars>>

\* a plausible slip: the first failed job ends the completion loop and the
\* command
CollectAborts(j) ==
    /\ pc = "pool"
    /\ j \in DOMAIN jobs
    /\ \A k \in 1..Len(drained) : drained[k] # j
    /\ jobs[j].st \in {"ok", "exc"}
    /\ drained' = Append(drained, j)
    /\ LET row_key == RowKey(target_rows[j], (j - 1) + 1)
       IN  updates' = IF jobs[j].st = "exc" THEN updates
                      ELSE (row_key :> jobs[j].result) @@ updates
    /\ pc' = IF jobs[j].st = "exc" THEN "idle" ELSE pc
    /\ status' = IF jobs[j].st = "exc" THEN "aborted" ELSE status
    /\ UNCHANGED <<sheet, session, runs, cmd, all_rows, target_rows,
                   final_rows, jobs, idx, exported, notRunVars>>

\* a plausible slip: results are keyed by their place in the completion order
CollectByCompletionOrder(j) ==
    /\ pc = "pool"
    /\ j \in DOMAIN jobs
    /\ \A k \in 1..Len(drained) : drained[k] # j
    /\ jobs[j].st \in {"ok", "exc"}
    /\ drained' = Append(drained, j)
    /\ LET row_key == Len(drained) + 2
       IN  updates' = IF jobs[j].st = "exc" THEN updates
                      ELSE (row_key :> jobs[j].result) @@ updates
    /\ UNCHANGED <<sheet, session, runs, pc, cmd, status, all_rows, target_rows,
                   final_rows, jobs, idx, exported, notRunVars>>

\* one iteration of the loop over as_completed(future_map)
Collect(j) ==
    /\ pc = "pool"
    /\ j \in DOMAIN jobs
    /\ \A k \in 1..Len(drained) : drained[k] # j
    /\ jobs[j].st \in {"ok", "exc"}
    /\ drained' = Append(drained, j)
    /\ LET row_key == RowKey(target_rows[j], (j - 1) + 1)
       IN  updates' = IF jobs[j].st = "exc" THEN updates
                      ELSE (row_key :> jobs[j].result) @@ updates
    /\ UNCHANGED <<sheet, session, runs, pc, cmd, status, all_rows, target_rows,
                   final_rows, jobs, idx, exported, notRunVars>>

\* one iteration of the loop of media: collect_media returns or raises
MediaRow(raises, news_highlight) ==
    /\ pc = "loop"
    /\ cmd.stage = 2
    /\ idx < Len(target_rows)
    /\ LET row == target_rows[idx + 1]
           row_key == RowKey(row, idx + 1)
           enriched == CollectMedia(row, news_highlight)
       IN  IF raises
           THEN /\ jobs' = [jobs EXCEPT ![idx + 1].st = "exc"]
                /\ updates' = updates
           ELSE /\ jobs' = [jobs EXCEPT ![idx + 1].st = "ok",
                                        ![idx + 1].result = enriched]
                /\ updates' = (row_key :> enriched) @@ updates
    /\ idx' = idx + 1
    /\ UNCHANGED <<sheet, session, runs, pc, cmd, status, all_rows, target_rows,
                   final_rows, drained, exported, notRunVars>>

\* the loop of dossier calls collect_dossier, which raises before it reaches
\* build_company_dossier or enters the retry loop
DossierStart(raises) ==
    /\ pc = "loop"
    /\ cmd.stage = 3
    /\ idx < Len(target_rows)
    /\ IF raises
       THEN /\ jobs' = [jobs EXCEPT ![idx + 1].st = "exc"]
            /\ idx' = idx + 1
            /\ pc' = "loop"
       ELSE /\ jobs' = [jobs EXCEPT ![idx + 1].st = "running"]
            /\ idx' = idx
            /\ pc' = "dossier"
    /\ UNCHANGED <<sheet, session, runs, cmd, status, all_rows, target_rows, updates,
                   final_rows, drained, exported, notRunVars>>

\* the payloads _parse_dossier_json returns: filled, or the placeholder
FilledPayload == DossierPayload(Lit("ok", 2), <<Lit("a", 1)>>, <<Lit("url", 3)>>)
PlaceholderPayload == DossierPayload(Sentinel, <<>>, <<>>)
\* a summary of blanks only, which str(...).strip() leaves empty
BlankSummaryPayload == DossierPayload(EmptyTxt, <<Lit("a", 1)>>, <<>>)
\* no summary and no items, but sources
SourcesOnlyPayload == DossierPayload(Sentinel, <<>>, <<Lit("url", 3)>>)
Payloads == {FilledPayload, PlaceholderPayload, BlankSummaryPayload, SourcesOnlyPayload}

\* a plausible slip: no sleep after the last attempt
AttemptFailsNoFinalSleep ==
    /\ pc = "dossier"
    /\ jobs[idx + 1].calls < Attempts
    /\ LET attempt == jobs[idx + 1].calls
           wait_time == BackoffTenths * (attempt + 1)
       IN  jobs' = [jobs EXCEPT ![idx + 1].calls = attempt + 1,
                                ![idx + 1].last_error = attempt + 1,
                                ![idx + 1].sleeps =
                                    IF attempt + 1 < Attempts THEN Append(@, wait_time)
                                    ELSE @]
    /\ UNCHANGED <<sheet, session, runs, pc, cmd, status, all_rows, target_rows,
                   updates, final_rows, drained, idx, exported, notRunVars>>

\* one attempt of build_company_dossier that fails: the error is kept and
\* the thread sleeps
AttemptFails ==
    /\ pc = "dossier"
    /\ jobs[idx + 1].calls < Attempts
    /\ LET attempt == jobs[idx + 1].calls
           wait_time == BackoffTenths * (attempt + 1)
       IN  jobs' = [jobs EXCEPT ![idx + 1].calls = attempt + 1,
                                ![idx + 1].last_error = attempt + 1,
                                ![idx + 1].sleeps = Append(@, wait_time)]
    /\ UNCHANGED <<sheet, session, runs, pc, cmd, status, all_rows, target_rows, updates,
                   final_rows, drained, idx, exported, notRunVars>>

\* variant: the wait comes before the attempt's outcome is looked at
AttemptSucceedsAfterSleep(payload) ==
    /\ pc = "dossier"
    /\ jobs[idx + 1].calls < Attempts
    /\ LET row == target_rows[idx + 1]
           result == DossierResult(row, payload, EmptyTxt)
           row_key == RowKey(row, idx + 1)
       IN  /\ jobs' = [jobs EXCEPT ![idx + 1].st = "ok",
                                   ![idx + 1].result = result,
                                   ![idx + 1].calls = @ + 1,
                                   ![idx + 1].payload = <<payload>>,
                                   ![idx + 1].sleeps =
                                       Append(@, BackoffTenths * (Len(@) + 1))]
           /\ updates' = (row_key :> result) @@ updates
    /\ idx' = idx + 1
    /\ pc' = "loop"
    /\ UNCHANGED <<sheet, session, runs, cmd, status, all_rows, target_rows,
                   final_rows, drained, exported, notRunVars>>

\* one attempt of build_company_dossier that returns a payload, and the rest
\* of collect_dossier
AttemptSucceeds(payload) ==
    /\ pc = "dossier"
    /\ jobs[idx + 1].calls < Attempts
    /\ LET row == target_rows[idx + 1]
           result == DossierResult(row, payload, EmptyTxt)
           row_key == RowKey(row, idx + 1)
       IN  /\ jobs' = [jobs EXCEPT ![idx + 1].st = "ok",
                                   ![idx + 1].result = result,
                                   ![idx + 1].calls = @ + 1,
                                   ![idx + 1].payload = <<payload>>]
           /\ updates' = (row_key :> result) @@ updates
    /\ idx' = idx + 1
    /\ pc' = "loop"
    /\ UNCHANGED <<sheet, session, runs, cmd, status, all_rows, target_rows,
                   final_rows, drained, exported, notRunVars>>

\* the retry loop is over: build_company_dossier raises from last_error,
\* collect_dossier catches it and returns the row with the error note
RetriesExhausted ==
    /\ pc = "dossier"
    /\ jobs[idx + 1].calls >= Attempts
    /\ LET row == target_rows[idx + 1]
           error_note == RetriesMessage(row)
           result == DossierResult(row, FallbackPayload(error_note), error_note)
           row_key == RowKey(row, idx + 1)
       IN  /\ jobs' = [jobs EXCEPT ![idx + 1].st = "ok",
                                   ![idx + 1].result = result,
                                   ![idx + 1].raised = jobs[idx + 1].last_error]
           /\ updates' = (row_key :> result) @@ updates
    /\ idx' = idx + 1
    /\ pc' = "loop"
    /\ UNCHANGED <<sheet, session, runs, cmd, status, all_rows, target_rows,
                   final_rows, drained, exported, notRunVars>>

\* the end of a command: nothing is written when no row was updated, else
\* the rows are merged, written and exported
Finish ==
    /\ \/ pc = "pool" /\ Len(drained) = Len(jobs)
       \/ pc = "loop" /\ idx = Len(target_rows)
    /\ pc' = "idle"
    /\ IF updates = <<>>
       THEN /\ status' = "no_updates"
            /\ UNCHANGED <<sheet, final_rows, exported>>
       ELSE LET merged == MergeRows(all_rows, updates)
            IN  /\ final_rows' = merged
                /\ sheet' = BatchUpdate(sheet, merged)
                /\ exported' = ExportSnapshot(merged)
                /\ status' = "written"
    /\ UNCHANGED <<session, runs, cmd, all_rows, target_rows, updates, jobs, drained,
                   idx, notRunVars>>

Limits == {0, 1}

Next ==
    \/ \E st \in 1..3, resume \in BOOLEAN, limit \in Limits, key \in BOOLEAN :
          StartCommand(st, resume, limit, key)
    \/ \E j \in 1..MaxRows : WorkerStart(j)
    \/ \E j \in 1..MaxRows, raises \in BOOLEAN : WorkerFinish(j, raises)
    \/ \E j \in 1..MaxRows : Collect(j)
    \/ \E raises \in BOOLEAN, news \in {EmptyTxt, Lit("news", 4)} :
          MediaRow(raises, news)
    \/ \E raises \in BOOLEAN : DossierStart(raises)
    \/ AttemptFails
    \/ \E payload \in Payloads : AttemptSucceeds(payload)
    \/ RetriesExhausted
    \/ Finish

Init == RunInit /\ MarkIdle /\ CascadeIdle /\ CallIdle

Spec == Init /\ [][Next]_vars

InitBatch == BatchInit /\ MarkIdle /\ CascadeIdle /\ CallIdle

SpecBatch == InitBatch /\ [][Next]_vars

(***************************************************************************)
(* _merge_rows on arbitrary rows and update maps.                          *)
(***************************************************************************)
FirstKey == 2

\* a row as fetch_rows yields it, or a row without "__row" (key 0)
MergeRow(k) ==
    IF k = 0 THEN ("company" :> Lit("company", 1))
    ELSE ("__row" :> k) @@ ("company" :> Lit("company", k))

MergeKeys == FirstKey..(MaxRows + 1)

MergeRowLists ==
    UNION {[1..n -> {MergeRow(k) : k \in MergeKeys \cup {0}}] : n \in 0..MaxRows}

\* an update map for any subset of the keys
MergeUpdateMaps ==
    {[k \in K |-> With(MergeRow(k), "baseline_summary", Lit("summary", k))] :
        K \in SUBSET MergeKeys}

MergeInit ==
    /\ sheet = [header |-> {}, rows |-> <<>>]
    /\ session = 0
    /\ runs = 0
    /\ pc = "merge"
    /\ cmd = NoCmd
    /\ status = "none"
    /\ all_rows \in MergeRowLists
    /\ target_rows = <<>>
    /\ updates \in MergeUpdateMaps
    /\ final_rows = <<>>
    /\ jobs = <<>>
    /\ drained = <<>>
    /\ idx = 0
    /\ exported = <<>>

\* final_rows = _merge_rows(all_rows, updates)
Merge ==
    /\ pc = "merge"
    /\ final_rows' = MergeRows(all_rows, updates)
    /\ pc' = "merged"
    /\ UNCHANGED <<sheet, session, runs, cmd, status, all_rows, target_rows, updates,
                   jobs, drained, idx, exported, notRunVars>>

InitMerge == MergeInit /\ MarkIdle /\ CascadeIdle /\ CallIdle

SpecMerge == InitMerge /\ [][Merge]_vars

(***************************************************************************)
(* build_summary_and_insights (nlp/llm.py).                                *)
(***************************************************************************)
JsonEmpty == "{}"
JsonSummary == "{\"summary\": \"s\"}"
JsonBlankSummary == "{\"summary\": \"\"}"
JsonList == "[]"

\* the lines that open and close a Markdown code fence around a document
FenceOpen == "<fence>json"
FenceClose == "<fence>"

\* a dict read from JSON: the keys the documents above have
EmptyDict == [kind |-> "dict", has_summary |-> FALSE, summary |-> EmptyTxt]

RECURSIVE DropBlank(_)
\* json.loads skips the whitespace around the document
DropBlank(lines) ==
    IF lines # <<>> /\ Head(lines) = "" THEN DropBlank(Tail(lines))
    ELSE IF lines # <<>> /\ lines[Len(lines)] = ""
         THEN DropBlank(SubSeq(lines, 1, Len(lines) - 1))
         ELSE lines

\* json.loads(content): the value, or "invalid" for JSONDecodeError
JsonLoads(lines) ==
    LET doc == DropBlank(lines)
    IN  IF Len(doc) # 1 THEN [kind |-> "invalid", has_summary |-> FALSE, summary |-> EmptyTxt]
        ELSE IF doc[1] = JsonEmpty THEN EmptyDict
        ELSE IF doc[1] = JsonSummary
             THEN [kind |-> "dict", has_summary |-> TRUE, summary |-> Lit("s", 1)]
        ELSE IF doc[1] = JsonBlankSummary
             THEN [kind |-> "dict", has_summary |-> TRUE, summary |-> EmptyTxt]
        ELSE IF doc[1] = JsonList
             THEN [kind |-> "list", has_summary |-> FALSE, summary |-> EmptyTxt]
        ELSE [kind |-> "invalid", has_summary |-> FALSE, summary |-> EmptyTxt]

\* _parse_llm_json from line 392 on, for a dict without the optional keys
Decide(profile_, data) ==
    [summary |-> IF data.has_summary /\ data.summary # EmptyTxt THEN data.summary
                 ELSE Lit("Summary unavailable.", 20),
     insights |-> "No insights returned.",
     business_model |-> IF profile_ = "iso_msp" THEN "service" ELSE "other",
     market_focus |-> IF profile_ = "iso_msp" THEN "B2B" ELSE "OTHER",
     raw_response |-> Str(<<data>>)]

\* a plausible slip: the parser never raises on invalid JSON
ParseLlmJsonLenient(profile_, content, raise_on_error) ==
    IF content.none THEN Raise("TypeError")
    ELSE LET data == JsonLoads(content.lines)
         IN  IF data.kind = "invalid" THEN Ok(Decide(profile_, EmptyDict))
             ELSE IF data.kind # "dict" THEN Raise("AttributeError")
             ELSE Ok(Decide(profile_, data))

\* _parse_llm_json(profile, content, raise_on_error=...)
ParseLlmJson(profile_, content, raise_on_error) ==
    IF content.none THEN Raise("TypeError")
    ELSE LET data == JsonLoads(content.lines)
         IN  IF data.kind = "invalid"
             THEN IF raise_on_error THEN Raise("ValueError")
                  ELSE Ok(Decide(profile_, EmptyDict))
             ELSE IF data.kind # "dict" THEN Raise("AttributeError")
             ELSE Ok(Decide(profile_, data))

\* truncate_text(payload, limit) on a text without outer whitespace
TruncateText(payload, limit) ==
    IF payload.n <= limit THEN payload
    ELSE Concat(Slice(payload, limit - 3), Lit("...", 3))

\* _heuristic_fallback and _heuristic_iso_payload on a context whose only
\* text is site_text, without keywords
HeuristicFallback(profile_, context_) ==
    IF profile_ = "iso_msp"
    THEN LET summary == TruncateText(context_.site_text, 400)
         IN  [summary |-> IF summary # EmptyTxt THEN summary
                          ELSE Lit("Summary unavailable.", 20),
              insights |-> "Limited structured data detected.",
              business_model |-> "service",
              market_focus |-> "B2B",
              raw_response |-> NoContent]
    ELSE LET combined == context_.site_text
         IN  [summary |-> TruncateText(IF combined # EmptyTxt THEN combined
                                       ELSE Lit("No data gathered.", 17), 500),
              insights |-> "Limited public signals detected.",
              business_model |-> "other",
              market_focus |-> "OTHER",
              raw_response |-> NoContent]

\* a plausible slip: a provider is tried whether or not its key is set
ConfiguredAlways(key) == TRUE

\* if settings.openai_api_key: / if settings.perplexity_api_key:
Configured(key) == key # NoField /\ key # ""

\* a plausible slip: the cascade catches transport errors only
CaughtTransportOnly(error) == error \in {"APIError", "HTTPStatusError"}

\* except Exception
Caught(error) == TRUE

\* what a provider's endpoint does: a transport failure, or a message
Responses ==
    {[ok |-> FALSE, content |-> NoContent]}
    \cup {[ok |-> TRUE, content |-> c] :
            c \in {NoContent, Str(<<>>), Str(<<JsonEmpty>>), Str(<<JsonSummary>>),
                   Str(<<JsonBlankSummary>>), Str(<<JsonList>>), Str(<<"not json">>),
                   Str(<<"", JsonSummary, "">>),
                   Str(<<FenceOpen, JsonSummary, FenceClose>>)}}

\* response.choices[0].message.content or "{}"
OpenAIContent(response) ==
    IF response.content.none \/ response.content.lines = <<>> THEN Str(<<JsonEmpty>>)
    ELSE response.content

\* _call_openai: the client needs a key, the request may fail, the content
\* is parsed strictly
CallOpenAI(settings_, profile_, response) ==
    IF settings_.openai_api_key \in {NoField, ""} THEN Raise("OpenAIError")
    ELSE IF ~response.ok THEN Raise("APIError")
    ELSE ParseLlmJson(profile_, OpenAIContent(response), TRUE)

\* _call_perplexity and _invoke_perplexity
CallPerplexity(settings_, profile_, response) ==
    IF settings_.perplexity_api_key \in {NoField, ""} THEN Raise("ValueError")
    ELSE IF ~response.ok THEN Raise("HTTPStatusError")
    ELSE ParseLlmJson(profile_, response.content, TRUE)

\* the record of one strategy: what was handed to the parser, if anything,
\* and what the strategy returned or raised
Call(strategy, parsed, content, outcome) ==
    [strategy |-> strategy, parsed |-> parsed, content |-> content, outcome |-> outcome]

ApiKeys == {NoField, "", "key"}
Profiles == {"software", "iso_msp", "enterprise"}
SiteTexts == {EmptyTxt, Lit("site", 4), Lit("site", LongName)}

CascadeInit ==
    /\ settings \in [openai_api_key : ApiKeys, perplexity_api_key : ApiKeys]
    /\ profile \in Profiles
    /\ context \in [site_text : SiteTexts]
    /\ casPc = "openai"
    /\ calls = <<>>
    /\ returned = NotCalled
    /\ lenientIn = NoContent
    /\ lenient = NotCalled

\* lines 65-69: the primary provider
TryOpenAI(response) ==
    /\ casPc = "openai"
    /\ IF Configured(settings.openai_api_key)
       THEN LET outcome == CallOpenAI(settings, profile, response)
                parsed == response.ok /\ Configured(settings.openai_api_key)
            IN  /\ calls' = Append(calls, Call("openai", parsed,
                                               OpenAIContent(response), outcome))
                /\ IF outcome.kind = "ok" \/ ~Caught(outcome.error)
                   THEN casPc' = "done" /\ returned' = outcome
                   ELSE casPc' = "perplexity" /\ UNCHANGED returned
       ELSE /\ casPc' = "perplexity"
            /\ UNCHANGED <<calls, returned>>
    /\ UNCHANGED <<settings, profile, context, lenientIn, lenient, notCascadeVars>>

\* lines 71-75: the secondary provider
TryPerplexity(response) ==
    /\ casPc = "perplexity"
    /\ IF Configured(settings.perplexity_api_key)
       THEN LET outcome == CallPerplexity(settings, profile, response)
                parsed == response.ok /\ Configured(settings.perplexity_api_key)
            IN  /\ calls' = Append(calls, Call("perplexity", parsed,
                                               response.content, outcome))
                /\ IF outcome.kind = "ok" \/ ~Caught(outcome.error)
                   THEN casPc' = "done" /\ returned' = outcome
                   ELSE casPc' = "heuristic" /\ UNCHANGED returned
       ELSE /\ casPc' = "heuristic"
            /\ UNCHANGED <<calls, returned>>
    /\ UNCHANGED <<settings, profile, context, lenientIn, lenient, notCascadeVars>>

\* line 77: return _heuristic_fallback(profile, context)
Heuristic ==
    /\ casPc = "heuristic"
    /\ LET outcome == Ok(HeuristicFallback(profile, context))
       IN  /\ calls' = Append(calls, Call("heuristic", FALSE, NoContent, outcome))
           /\ returned' = outcome
    /\ casPc' = "done"
    /\ UNCHANGED <<settings, profile, context, lenientIn, lenient, notCascadeVars>>

\* _parse_llm_json(profile, content) with raise_on_error left at its default
ParseLenient(content) ==
    /\ casPc = "done"
    /\ lenientIn' = content
    /\ lenient' = ParseLlmJson(profile, content, FALSE)
    /\ casPc' = "parsed"
    /\ UNCHANGED <<settings, profile, context, calls, returned, notCascadeVars>>

CascadeNext ==
    \/ \E response \in Responses : TryOpenAI(response)
    \/ \E response \in Responses : TryPerplexity(response)
    \/ Heuristic
    \/ \E response \in Responses : ParseLenient(response.content)

InitCascade == CascadeInit /\ MarkIdle /\ RunIdle /\ CallIdle

SpecCascade == InitCascade /\ [][CascadeNext]_vars

(***************************************************************************)
(* _merge_software_signals (enricher.py) with collect_candidate_products   *)
(* and filter_software_candidates (utils/text.py).  A text is a sequence   *)
(* of lines; a line is one of the strings below.                           *)
(***************************************************************************)
MaxLines == 2

Vocabulary ==
    {"Acme Platform", " Acme Platform ", "Best product", "Cloud Suite", "hello"}

\* line.strip()
StripLine(line) == IF line = " Acme Platform " THEN "Acme Platform" ELSE line

\* any(token in line.lower() for token in ("product", "platform", "solution", "suite"))
HasProductToken(line) == line \in {"Acme Platform", "Best product", "Cloud Suite"}

\* any(keyword in lower for keyword in software_keywords), or a service phrase
HasSoftwareKeyword(candidate) == candidate \in {"Acme Platform", "Cloud Suite", "Zeta App"}

\* the rank of a product name in the order of str comparison
ProductRank(name) ==
    CASE name = "Acme Platform" -> 1 [] name = "Best product" -> 2
      [] name = "Cloud Suite" -> 3 [] name = "Zeta App" -> 4

\* the elements of a sequence
Range(seq) == {seq[i] : i \in 1..Len(seq)}

RECURSIVE Flatten(_)
\* the lines of the texts, text after text
Flatten(texts) == IF texts = <<>> THEN <<>> ELSE Head(texts) \o Flatten(Tail(texts))

RECURSIVE CandidateLines(_, _)
\* the loop of collect_candidate_products over the lines, candidates so far
CandidateLines(lines, candidates) ==
    IF lines = <<>> THEN candidates
    ELSE LET line == StripLine(Head(lines))
         IN  IF HasProductToken(line) /\ line \notin Range(candidates)
             THEN CandidateLines(Tail(lines), Append(candidates, line))
             ELSE CandidateLines(Tail(lines), candidates)

\* collect_candidate_products(texts)
CollectCandidateProducts(texts) == CandidateLines(Flatten(texts), <<>>)

RECURSIVE FilterLoop(_, _)
\* the loop of filter_software_candidates, results so far
FilterLoop(candidates, results) ==
    IF candidates = <<>> THEN results
    ELSE LET candidate == Head(candidates)
         IN  IF HasSoftwareKeyword(candidate) /\ candidate \notin Range(results)
             THEN FilterLoop(Tail(candidates), Append(results, candidate))
             ELSE FilterLoop(Tail(candidates), results)

\* filter_software_candidates(candidates)
FilterSoftwareCandidates(candidates) == FilterLoop(candidates, <<>>)

RECURSIVE SortProducts(_)
\* software_list.sort()
SortProducts(S) ==
    IF S = {} THEN <<>>
    ELSE LET m == CHOOSE x \in S : \A y \in S \ {x} : ProductRank(x) < ProductRank(y)
         IN  <<m>> \o SortProducts(S \ {m})

\* the three candidate lists of _merge_software_signals, one after another
SourceCandidates(input) ==
    FilterSoftwareCandidates(CollectCandidateProducts(input.pages))
        \o FilterSoftwareCandidates(CollectCandidateProducts(input.news))
        \o FilterSoftwareCandidates(CollectCandidateProducts(input.posts))

\* a plausible slip: the flag of the decision vetoes the candidates
MergeSoftwareSignalsVeto(input) ==
    LET candidates == Range(input.llm_payload.software_products)
                          \cup Range(SourceCandidates(input))
        software_list == SortProducts({item \in candidates : item # ""})
    IN  [has_software |-> input.llm_payload.has_software /\ software_list # <<>>,
         software_list |-> software_list]

\* a plausible slip: the list is returned in the order the items were found
MergeSoftwareSignalsUnsorted(input) ==
    LET found == input.llm_payload.software_products \o SourceCandidates(input)
        software_list == FilterLoop(found, <<>>)
    IN  [has_software |-> input.llm_payload.has_software \/ software_list # <<>>,
         software_list |-> software_list]

\* _merge_software_signals(site_data, serp_data, news, linkedin_posts, llm_payload)
MergeSoftwareSignals(input) ==
    LET candidates == Range(input.llm_payload.software_products)
                          \cup Range(SourceCandidates(input))
        software_list == SortProducts({item \in candidates : item # ""})
    IN  [has_software |-> input.llm_payload.has_software \/ software_list # <<>>,
         software_list |-> software_list]

\* texts of at most n lines
LineTexts(n) == UNION {[1..k -> Vocabulary] : k \in 0..n}

\* the product lists a decision declares (filtered by the parser, unsorted)
DeclaredProducts ==
    {<<>>, <<"Zeta App">>, <<"Acme Platform">>, <<"Zeta App", "Acme Platform">>}

SignalInputs ==
    [pages : {<<>>} \cup {<<t>> : t \in LineTexts(MaxLines)},
     news : {<<>>} \cup {<<t>> : t \in LineTexts(1)},
     posts : {<<>>} \cup {<<t>> : t \in LineTexts(1)},
     llm_payload : [has_software : BOOLEAN, software_products : DeclaredProducts]]

RECURSIVE Reverse(_)
Reverse(seq) == IF seq = <<>> THEN <<>> ELSE Append(Reverse(Tail(seq)), Head(seq))

\* the same texts handed over in another order: the sources exchanged by
\* the permutation p, the lines of every text reversed if flip
Permuted(input, p, flip) ==
    LET sources == <<input.pages, input.news, input.posts>>
        Turn(texts) == IF flip THEN [i \in DOMAIN texts |-> Reverse(texts[i])] ELSE texts
    IN  [pages |-> Turn(sources[p[1]]),
         news |-> Turn(sources[p[2]]),
         posts |-> Turn(sources[p[3]]),
         llm_payload |-> [input.llm_payload EXCEPT
                            !.software_products = IF flip THEN Reverse(@) ELSE @]]

Permutations3 == {p \in [1..3 -> 1..3] : \A i, k \in 1..3 : i # k => p[i] # p[k]}

SignalInit ==
    /\ callPc = "call"
    /\ callIn \in SignalInputs
    /\ callOut = <<>>

\* has_software, software_products = _merge_software_signals(...)
CallMergeSignals ==
    /\ callPc = "call"
    /\ callOut' = <<MergeSoftwareSignals(callIn)>>
    /\ callPc' = "done"
    /\ UNCHANGED <<callIn, notCallVars>>

\* the call again, on the same texts in another order
CallMergeSignalsPermuted(p, flip) ==
    /\ callPc = "done"
    /\ callOut' = Append(callOut, MergeSoftwareSignals(Permuted(callIn, p, flip)))
    /\ callPc' = "again"
    /\ UNCHANGED <<callIn, notCallVars>>

SignalNext ==
    \/ CallMergeSignals
    \/ \E p \in Permutations3, flip \in BOOLEAN : CallMergeSignalsPermuted(p, flip)

InitSignals == SignalInit /\ MarkIdle /\ RunIdle /\ CascadeIdle

SpecSignals == InitSignals /\ [][SignalNext]_vars

(***************************************************************************)
(* collect_profile up to the has_software it writes (enricher.py lines     *)
(* 34-66): normalize_company, generate_candidate_urls, scrape_site, the    *)
(* decision and _merge_software_signals.                                   *)
(***************************************************************************)
\* _first_non_empty on one cell: None unless value.strip() is non-empty
FirstNonEmpty(value) == IF value \in {"", "  "} THEN "" ELSE value

\* normalize_company(row): the name falls back on the domain
NormalizeCompany(row) ==
    LET name_cell == FirstNonEmpty(row.company)
        domain_cell == FirstNonEmpty(row.domain)
    IN  [name |-> IF name_cell # "" THEN name_cell ELSE domain_cell,
         domain |-> domain_cell]

\* _slugify(value): lower case, letters and digits only
Slugify(value) ==
    CASE value = "Acme" -> "acme"
      [] value = "acme.com" -> "acmecom"
      [] value = "https://acme.com" -> "httpsacmecom"
      [] OTHER -> ""

RECURSIVE Dedupe(_, _)
Dedupe(urls, deduped) ==
    IF urls = <<>> THEN deduped
    ELSE IF Head(urls) \in Range(deduped) THEN Dedupe(Tail(urls), deduped)
    ELSE Dedupe(Tail(urls), Append(deduped, Head(urls)))

\* domain.startswith("http")
StartsWithHttp(domain) == domain = "https://acme.com"

\* a plausible slip: the slug is not tested before the url is built
GenerateCandidateUrlsAnySlug(company) ==
    LET from_domain ==
            IF company.domain = "" THEN <<>>
            ELSE IF ~StartsWithHttp(company.domain)
                 THEN <<<<"https://", company.domain, "">>, <<"http://", company.domain, "">>>>
                 ELSE <<<<"", company.domain, "">>>>
        urls == IF from_domain = <<>>
                THEN <<<<"https://", Slugify(company.name), ".com">>>>
                ELSE from_domain
    IN  SubSeq(Dedupe(urls, <<>>), 1, IF Len(Dedupe(urls, <<>>)) < 4
                                      THEN Len(Dedupe(urls, <<>>)) ELSE 4)

\* CompanyRecord.generate_candidate_urls(max_candidates=4); a url is
\* <<text before, domain or slug, text after>>
GenerateCandidateUrls(company) ==
    LET from_domain ==
            IF company.domain = "" THEN <<>>
            ELSE IF ~StartsWithHttp(company.domain)
                 THEN <<<<"https://", company.domain, "">>, <<"http://", company.domain, "">>>>
                 ELSE <<<<"", company.domain, "">>>>
        urls == IF from_domain = <<>> /\ company.name # "" /\ Slugify(company.name) # ""
                THEN <<<<"https://", Slugify(company.name), ".com">>>>
                ELSE from_domain
    IN  SubSeq(Dedupe(urls, <<>>), 1, IF Len(Dedupe(urls, <<>>)) < 4
                                      THEN Len(Dedupe(urls, <<>>)) ELSE 4)

\* scrape_site: web.http are the page texts the plain fetches give for the
\* candidate urls, web.playwright those the browser gives
ScrapeSite(candidates, web, enable_playwright) ==
    IF candidates = <<>> THEN <<>>
    ELSE IF web.http # <<>> \/ ~enable_playwright THEN web.http
    ELSE web.playwright

\* any(term in text for term in ("portal", "platform", "software", "saas", "dashboard"))
HasIsoTerm(line) == StripLine(line) = "Acme Platform"

\* has_software and software_products of _heuristic_fallback and
\* _heuristic_iso_payload for a site text made of the pages
HeuristicSoftware(profile_, pages) ==
    IF profile_ = "iso_msp"
    THEN [has_software |-> \E line \in Range(Flatten(pages)) : HasIsoTerm(line),
          software_products |-> <<>>]
    ELSE LET products == CollectCandidateProducts(<<Flatten(pages)>>)
             software_products == FilterSoftwareCandidates(products)
         IN  [has_software |-> software_products # <<>>,
              software_products |-> SubSeq(software_products, 1,
                    IF Len(software_products) < 5 THEN Len(software_products) ELSE 5)]

\* collect_profile lines 34-66: the provider either yields the decision or
\* the cascade falls back on the heuristic
CollectProfileSignals(input) ==
    LET company == NormalizeCompany(input.row)
        candidates == GenerateCandidateUrls(company)
        pages == ScrapeSite(candidates, input.web, input.enable_playwright)
        by_provider == Configured(input.openai_api_key) /\ input.provider.ok
        llm_payload == IF by_provider THEN input.provider.payload
                       ELSE HeuristicSoftware(input.profile, pages)
        merged == MergeSoftwareSignals([pages |-> pages, news |-> <<>>, posts |-> <<>>,
                                        llm_payload |-> llm_payload])
    IN  [company |-> company,
         candidates |-> candidates,
         pages |-> pages,
         source |-> IF by_provider THEN "provider" ELSE "heuristic",
         has_software |-> merged.has_software]

ProviderPayloads ==
    [has_software : BOOLEAN, software_products : {<<>>, <<"Zeta App">>}]

ProfileInputs ==
    [row : [company : {"", "  ", "Acme", "!!!"},
            domain : {"", "acme.com", "https://acme.com"}],
     profile : Profiles,
     openai_api_key : {NoField, "key"},
     provider : {[ok |-> FALSE, payload |-> [has_software |-> FALSE,
                                             software_products |-> <<>>]]}
                    \cup {[ok |-> TRUE, payload |-> q] : q \in ProviderPayloads},
     enable_playwright : BOOLEAN,
     web : [http : {<<>>} \cup {<<t>> : t \in LineTexts(MaxLines)},
            playwright : {<<>>, <<<<"Acme Platform">>>>}]]

ProfileInit ==
    /\ callPc = "call"
    /\ callIn \in ProfileInputs
    /\ callOut = <<>>

CallCollectProfile ==
    /\ callPc = "call"
    /\ callOut' = <<CollectProfileSignals(callIn)>>
    /\ callPc' = "done"
    /\ UNCHANGED <<callIn, notCallVars>>

InitProfile == ProfileInit /\ MarkIdle /\ RunIdle /\ CascadeIdle

SpecProfile == InitProfile /\ [][CallCollectProfile]_vars

(***************************************************************************)
(* _parse_dossier_json (nlp/llm.py).  The content is a sequence of lines,  *)
(* a line a sequence of words; the words of a line are separated by blanks.*)
(***************************************************************************)
MaxContentLines == 3

JsonDossier == "{\"summary\":\"ok\",\"wins\":[\"a\"]}"

\* line.startswith of the three backquotes
StartsWithFence(line) == line # <<>> /\ line[1] \in {FenceOpen, FenceClose}

RECURSIVE StripLines(_)
\* str.strip() on a text of several lines: the blank lines at both ends go
StripLines(lines) ==
    IF lines # <<>> /\ Head(lines) = <<>> THEN StripLines(Tail(lines))
    ELSE IF lines # <<>> /\ lines[Len(lines)] = <<>>
         THEN StripLines(SubSeq(lines, 1, Len(lines) - 1))
         ELSE lines

RECURSIVE DropFenceTail(_)
\* while parts and parts[-1].startswith(fence): parts = parts[:-1]
DropFenceTail(parts) ==
    IF parts # <<>> /\ StartsWithFence(parts[Len(parts)])
    THEN DropFenceTail(SubSeq(parts, 1, Len(parts) - 1))
    ELSE parts

\* lines 294-302: the content handed to json.loads
Unfenced(content) ==
    LET stripped == StripLines(content)
    IN  IF stripped # <<>> /\ StartsWithFence(stripped[1])
        THEN LET parts == DropFenceTail(Tail(stripped))
                 inner == StripLines(parts)
             IN  IF inner # <<>> THEN inner ELSE content
        ELSE content

\* json.loads on the words of the content
DossierJsonLoads(content) ==
    LET words == Flatten(content)
    IN  IF Len(words) # 1 THEN "invalid"
        ELSE IF words[1] = JsonDossier THEN "dossier"
        ELSE IF words[1] = JsonEmpty THEN "empty"
        ELSE IF words[1] = JsonList THEN "list"
        ELSE "invalid"

\* _parse_dossier_json(content): the payload, or the error data.get raises
\* on a document that is not an object
ParseDossierJson(content) ==
    LET data == DossierJsonLoads(Unfenced(content))
    IN  IF data = "list" THEN [kind |-> "raise", payload |-> DossierPayload(EmptyTxt, <<>>, <<>>)]
        ELSE IF data = "dossier"
             THEN [kind |-> "ok", payload |-> DossierPayload(Lit("ok", 2), <<Lit("a", 1)>>, <<>>)]
             ELSE [kind |-> "ok", payload |-> DossierPayload(Sentinel, <<>>, <<>>)]

ContentLines ==
    {<<>>, <<FenceOpen>>, <<FenceClose>>, <<JsonDossier>>, <<"prose">>,
     <<JsonEmpty>>, <<JsonList>>, <<FenceOpen, JsonDossier>>,
     <<JsonDossier, FenceClose>>, <<FenceOpen, JsonDossier, FenceClose>>}

DossierContents == UNION {[1..n -> ContentLines] : n \in 0..MaxContentLines}

DossierJsonInit ==
    /\ callPc = "call"
    /\ callIn \in DossierContents
    /\ callOut = <<>>

CallParseDossierJson ==
    /\ callPc = "call"
    /\ callOut' = <<ParseDossierJson(callIn)>>
    /\ callPc' = "done"
    /\ UNCHANGED <<callIn, notCallVars>>

InitDossierJson == DossierJsonInit /\ MarkIdle /\ RunIdle /\ CascadeIdle

SpecDossierJson == InitDossierJson /\ [][CallParseDossierJson]_vars

(***************************************************************************)
(* The API source adapters (sources/api_clients.py).  A response is an     *)
(* error of the request, or a body: error "" and the fields of the body    *)
(* the adapter reads.                                                      *)
(***************************************************************************)
\* a plausible slip: only the HTTP status errors are caught
IsHTTPErrorStatusOnly(error) == error = "HTTPStatusError"

\* except httpx.HTTPError: transport errors, timeouts and status errors;
\* the ValueError of response.json() is not one
IsHTTPError(error) == error \in {"ConnectError", "ReadTimeout", "HTTPStatusError"}

Body(overview, data) == [error |-> "", overview |-> overview, data |-> data]
Failed(error) == [error |-> error, overview |-> "", data |-> 0]

\* data: the number of articles or posts of the body; for the body of a
\* started run, 1 iff it names a dataset
AdapterResponses ==
    {Failed(e) : e \in {"ConnectError", "ReadTimeout", "HTTPStatusError", "JSONDecodeError"}}
        \cup {Body(o, n) : o \in {"", "overview"}, n \in {0, 1}}

\* what an adapter returned or raised, and the requests it issued
Fetched(overview, items, requests) ==
    [kind |-> "ok", overview |-> overview, items |-> items, requests |-> requests]
Propagated(requests) ==
    [kind |-> "raise", overview |-> "", items |-> 0, requests |-> requests]

\* fetch_serp_overview(company, settings)
FetchSerpOverview(key, responses) ==
    IF ~Configured(key) THEN Fetched("", 0, 0)
    ELSE LET first == responses[1]
             second == responses[2]
         IN  IF IsHTTPError(first.error) THEN Fetched("", 0, 1)
             ELSE IF first.error # "" THEN Propagated(1)
             ELSE IF first.data > 0 THEN Fetched(first.overview, first.data, 1)
             ELSE IF IsHTTPError(second.error) THEN Fetched("", 0, 2)
             ELSE IF second.error # "" THEN Propagated(2)
             ELSE Fetched(first.overview, second.data, 2)

\* fetch_news_articles(company, settings): response.json() is read after
\* the try block
FetchNewsArticles(key, responses) ==
    IF ~Configured(key) THEN Fetched("", 0, 0)
    ELSE LET first == responses[1]
         IN  IF IsHTTPError(first.error) THEN Fetched("", 0, 1)
             ELSE IF first.error # "" THEN Propagated(1)
             ELSE Fetched("", first.data, 1)

\* fetch_linkedin_posts(company, settings)
FetchLinkedinPosts(key, linkedin_url, responses) ==
    IF ~Configured(key) THEN Fetched("", 0, 0)
    ELSE IF linkedin_url = "" THEN Fetched("", 0, 0)
    ELSE LET run == responses[1]
             dataset == responses[2]
         IN  IF IsHTTPError(run.error) THEN Fetched("", 0, 1)
             ELSE IF run.error # "" THEN Propagated(1)
             ELSE IF run.data = 0 THEN Fetched("", 0, 1)
             ELSE IF IsHTTPError(dataset.error) THEN Fetched("", 0, 2)
             ELSE IF dataset.error # "" THEN Propagated(2)
             ELSE Fetched("", dataset.data, 2)

AdapterInputs ==
    [adapter : {"serp", "news", "linkedin"},
     key : ApiKeys,
     linkedin_url : {"", "https://www.linkedin.com/company/acme"},
     responses : [1..2 -> AdapterResponses]]

AdapterInit ==
    /\ callPc = "call"
    /\ callIn \in AdapterInputs
    /\ callOut = <<>>

CallFetchSerp ==
    /\ callPc = "call"
    /\ callIn.adapter = "serp"
    /\ callOut' = <<FetchSerpOverview(callIn.key, callIn.responses)>>
    /\ callPc' = "done"
    /\ UNCHANGED <<callIn, notCallVars>>

CallFetchNews ==
    /\ callPc = "call"
    /\ callIn.adapter = "news"
    /\ callOut' = <<FetchNewsArticles(callIn.key, callIn.responses)>>
    /\ callPc' = "done"
    /\ UNCHANGED <<callIn, notCallVars>>

CallFetchLinkedin ==
    /\ callPc = "call"
    /\ callIn.adapter = "linkedin"
    /\ callOut' = <<FetchLinkedinPosts(callIn.key, callIn.linkedin_url, callIn.responses)>>
    /\ callPc' = "done"
    /\ UNCHANGED <<callIn, notCallVars>>

AdapterNext == CallFetchSerp \/ CallFetchNews \/ CallFetchLinkedin

InitAdapters == AdapterInit /\ MarkIdle /\ RunIdle /\ CascadeIdle

SpecAdapters == InitAdapters /\ [][AdapterNext]_vars

(***************************************************************************)
(* The network requests of collect_profile's two fetches (enricher.py      *)
(* 38-39): scrape_site and fetch_serp_overview.                            *)
(***************************************************************************)
\* len(_SUFFIXES)
SuffixCount == 6

\* the requests scrape_site issues: one per suffix for each of the first two
\* candidates, and the Playwright fetch when no page came back
ScrapeRequests(candidates, web, enable_playwright) ==
    IF candidates = <<>> THEN 0
    ELSE Len(Take(candidates, 2)) * SuffixCount
         + (IF web.http # <<>> \/ ~enable_playwright THEN 0 ELSE 1)

\* collect_profile lines 35-39
CollectProfileFetches(input) ==
    LET company == NormalizeCompany(input.row)
        candidates == GenerateCandidateUrls(company)
        serp_data == FetchSerpOverview(input.serpapi_key, input.responses)
    IN  [company |-> company,
         pages |-> ScrapeSite(candidates, input.web, input.enable_playwright),
         scrape_requests |-> ScrapeRequests(candidates, input.web, input.enable_playwright),
         serp_requests |-> serp_data.requests]

FetchInputs ==
    [row : [company : {"", "  ", "Acme", "!!!"},
            domain : {"", "acme.com", "https://acme.com"}],
     serpapi_key : ApiKeys,
     responses : [1..2 -> AdapterResponses],
     enable_playwright : BOOLEAN,
     web : [http : {<<>>, <<<<"hello">>>>}, playwright : {<<>>}]]

CallCollectProfileFetches ==
    /\ callPc = "fetch"
    /\ callOut' = <<CollectProfileFetches(callIn)>>
    /\ callPc' = "fetched"
    /\ UNCHANGED <<callIn, notCallVars>>

InitFetches ==
    /\ callPc = "fetch"
    /\ callIn \in FetchInputs
    /\ callOut = <<>>
    /\ MarkIdle /\ RunIdle /\ CascadeIdle

SpecFetches == InitFetches /\ [][CallCollectProfileFetches]_vars

(***************************************************************************)
(* _parse_llm_json (nlp/llm.py 395-492): business_model and market_focus   *)
(* of the decision, for a JSON object that holds the two keys or not.      *)
(***************************************************************************)
\* str(value).lower() on the values of the model
LowerModel(value) ==
    CASE value = "Platform" -> "platform"
      [] value = "SERVICE" -> "service"
      [] value = "Consulting" -> "consulting"
      [] OTHER -> value

\* str(value).upper() on the values of the model
UpperMarket(value) ==
    CASE value = "b2b" -> "B2B"
      [] value = "Mixed" -> "MIXED"
      [] value = "Other" -> "OTHER"
      [] value = "global" -> "GLOBAL"
      [] OTHER -> value

allowed_models == {"product", "service", "platform", "marketplace", "hybrid", "other"}
allowed_markets == {"B2B", "B2C", "B2B2C", "B2G", "MIXED", "OTHER"}

\* data.get(key) or default
GetOr(value, default) == IF value \in {NoField, ""} THEN default ELSE value

\* the two fields of the LLMEnrichment _parse_llm_json returns
ParseEnums(profile_, data) ==
    IF profile_ = "iso_msp"
    THEN [business_model |-> LowerModel(GetOr(data.business_model, "service")),
          market_focus |-> UpperMarket(GetOr(data.market_focus, "B2B"))]
    ELSE LET bm_normalized == LowerModel(GetOr(data.business_model, "other"))
             mf_normalized == UpperMarket(GetOr(data.market_focus, "Other"))
         IN  [business_model |-> IF bm_normalized \in allowed_models THEN bm_normalized
                                 ELSE "other",
              market_focus |-> IF mf_normalized \in allowed_markets THEN mf_normalized
                               ELSE "OTHER"]

EnumInputs ==
    [profile : Profiles,
     data : [business_model : {NoField, "", "platform", "Platform", "SERVICE", "Consulting"},
             market_focus : {NoField, "", "B2B", "b2b", "Mixed", "global"}]]

CallParseEnums ==
    /\ callPc = "enums"
    /\ callOut' = <<ParseEnums(callIn.profile, callIn.data)>>
    /\ callPc' = "normalized"
    /\ UNCHANGED <<callIn, notCallVars>>

InitEnums ==
    /\ callPc = "enums"
    /\ callIn \in EnumInputs
    /\ callOut = <<>>
    /\ MarkIdle /\ RunIdle /\ CascadeIdle

SpecEnums == InitEnums /\ [][CallParseEnums]_vars

(***************************************************************************)
(* The stage entry points called on one row, one after the other, each on  *)
(* the row the call before it returned (enricher.py 34-222).               *)
(***************************************************************************)
MaxStageCalls == 3

\* collect_profile (1), collect_media (2) or collect_dossier (3) on a row,
\* each returning without an error
StageCall(row, st) ==
    CASE st = 1 -> CollectProfile(row, Decision)
      [] st = 2 -> CollectMedia(row, Lit("news", 4))
      [] st = 3 -> DossierResult(row, FilledPayload, EmptyTxt)

RECURSIVE ApplyStages(_, _)
\* the row after the calls of a sequence of stages
ApplyStages(row, stages) ==
    IF stages = <<>> THEN row
    ELSE ApplyStages(StageCall(row, Head(stages)), Tail(stages))

\* the cell updated_stages of a row read from the sheet: any short string,
\* or one that holds stage ids already
SheetMarkers ==
    StringsUpTo(MarkerAlphabet, MaxMarkerLen)
        \cup {<<"2">>, <<"3", ",", "1">>, <<"2", ",", " ", "3">>, <<"1", "0", "0", ",", "a">>}

\* a fetched row, with or without the column updated_stages
\* a row of a sheet an earlier version of the pipeline wrote: it holds a
\* dossier and the columns collect_profile lists as obsolete
LegacyRow ==
    ("__row" :> 2) @@ ("company" :> Lit("company", 2)) @@ ("updated_stages" :> <<"3">>)
        @@ ("dossier_summary" :> Lit("dossier", 7))
        @@ ("dossier_refreshed_at" :> Lit("then", 20))
        @@ ("summary" :> Lit("old summary", 11))

StageRows ==
    {("__row" :> 2) @@ ("company" :> Lit("company", 2))}
        \cup {("__row" :> 2) @@ ("company" :> Lit("company", 2)) @@ ("updated_stages" :> m) :
                m \in SheetMarkers}
        \cup {LegacyRow}

\* one more stage call on the row; callIn keeps the first row and the
\* stages called, callOut the row as it is now
CallStage(st) ==
    /\ callPc = "stages"
    /\ Len(callIn.stages) < MaxStageCalls
    /\ callIn' = [callIn EXCEPT !.stages = Append(@, st)]
    /\ callOut' = <<StageCall(callOut[1], st)>>
    /\ UNCHANGED <<callPc, notCallVars>>

StagesNext == \E st \in 1..3 : CallStage(st)

InitStages ==
    /\ callPc = "stages"
    /\ \E row \in StageRows :
          /\ callIn = [row |-> row, stages |-> <<>>]
          /\ callOut = <<row>>
    /\ MarkIdle /\ RunIdle /\ CascadeIdle

SpecStages == InitStages /\ [][StagesNext]_vars

(***************************************************************************)
(* _evaluate_relevance (pipeline/enricher.py), called any number of times. *)
(***************************************************************************)
MaxCalls == 2

\* str.lower() on the service names of the model
Lower(service) ==
    CASE service = "Merchant services" -> "merchant services"
      [] OTHER -> service

\* any(keyword in services_text for keyword in ("processing", "merchant", ...))
\* for a text that is one lowered service name
HasRelevanceKeyword(services_text) == services_text = "merchant services"

\* variant: the verdict the decision carries replaces the merged verdict
EvaluateRelevanceTrustsPayload(profile_, payload, has_software) ==
    IF profile_ = "software"
    THEN /\ payload.has_software
         /\ payload.business_model \in {"product", "platform", "hybrid"}
         /\ payload.market_focus \in {"B2B", "B2B2C", "B2G"}
    ELSE /\ payload.category \in {"Payment Processor", "Payment Service Provider",
                                  "ISO/MSP", "Acquirer", "Hybrid"}
         /\ payload.has_software
         /\ \E i \in DOMAIN payload.iso_services :
               HasRelevanceKeyword(Lower(payload.iso_services[i]))

\* _evaluate_relevance(profile, payload, has_software)
EvaluateRelevance(profile_, payload, has_software) ==
    IF profile_ = "software"
    THEN /\ has_software
         /\ payload.business_model \in {"product", "platform", "hybrid"}
         /\ payload.market_focus \in {"B2B", "B2B2C", "B2G"}
    ELSE /\ payload.category \in {"Payment Processor", "Payment Service Provider",
                                  "ISO/MSP", "Acquirer", "Hybrid"}
         /\ has_software
         /\ \E i \in DOMAIN payload.iso_services :
               HasRelevanceKeyword(Lower(payload.iso_services[i]))

\* decisions as the providers return them; has_software is the decision's
\* own verdict, which collect_profile merges before it asks for relevance
RelevancePayloads ==
    [business_model : {"platform", "other"},
     market_focus : {"B2B", "OTHER"},
     category : {"ISO/MSP", "NO"},
     iso_services : {<<"Merchant services">>, <<"consulting">>},
     has_software : BOOLEAN]

RelevanceProfiles == {"software", "iso_msp"}

RelevanceInit ==
    /\ callPc = "relevance"
    /\ callIn = <<>>
    /\ callOut = <<>>

\* one more call; callIn and callOut keep the calls and their results
CallEvaluateRelevance(profile_, payload, has_software) ==
    /\ callPc = "relevance"
    /\ Len(callIn) < MaxCalls
    /\ callIn' = Append(callIn, [profile |-> profile_, payload |-> payload,
                                 has_software |-> has_software])
    /\ callOut' = Append(callOut, EvaluateRelevance(profile_, payload, has_software))
    /\ UNCHANGED <<callPc, notCallVars>>

RelevanceNext ==
    \E profile_ \in RelevanceProfiles, payload \in RelevancePayloads,
       has_software \in BOOLEAN :
        CallEvaluateRelevance(profile_, payload, has_software)

InitRelevance == RelevanceInit /\ MarkIdle /\ RunIdle /\ CascadeIdle

SpecRelevance == InitRelevance /\ [][RelevanceNext]_vars

(***************************************************************************)
(* Claims about the stage commands.                                        *)
(***************************************************************************)
\* the job of a command has run to its end
Completed(j) == jobs[j].st \in {"ok", "exc"}

\* the key under which the loop files job j, and the place of its row
KeyOf(j) == target_rows[j]["__row"]
PlaceOf(j) == CHOOSE i \in 1..Len(all_rows) : all_rows[i]["__row"] = KeyOf(j)

CommandOver == pc = "idle" /\ jobs # <<>>

\* C1: at the end of a stage run every submitted job has run to completion;
\* a job whose stage function raised has no entry in the update map and its
\* row is unchanged in the merged output; a job that succeeded has its
\* result in the update map
C1_FailureIsolated ==
    CommandOver =>
        \A j \in DOMAIN jobs :
            /\ Completed(j)
            /\ jobs[j].st = "exc" =>
                  /\ KeyOf(j) \notin DOMAIN updates
                  /\ status = "written" =>
                        final_rows[PlaceOf(j)] = all_rows[PlaceOf(j)]
            /\ jobs[j].st = "ok" =>
                  /\ KeyOf(j) \in DOMAIN updates
                  /\ updates[KeyOf(j)] = jobs[j].result

\* one job failed in each kind of loop while a sibling succeeded and the
\* rows were written
C1_Witness ==
    /\ CommandOver
    /\ status = "written"
    /\ cmd.stage = 1
    /\ Len(jobs) = 3
    /\ jobs[2].st = "exc"
    /\ jobs[1].st = "ok"
    /\ jobs[3].st = "ok"
    /\ drained[1] = 2

\* what the per-row outcomes of a Stage 1 run determine
OkJobs == {j \in DOMAIN jobs : jobs[j].st = "ok"}
ExpectedUpdates ==
    [k \in {KeyOf(j) : j \in OkJobs} |->
        jobs[CHOOSE j \in OkJobs : KeyOf(j) = k].result]
ExpectedFinal ==
    [i \in 1..Len(all_rows) |->
        IF \E j \in OkJobs : PlaceOf(j) = i
        THEN jobs[CHOOSE j \in OkJobs : PlaceOf(j) = i].result
        ELSE all_rows[i]]

\* C2: the update map and the merged rows of a Stage 1 run are those the
\* per-row outcomes determine, in whatever order the jobs completed
C2_OrderIndependent ==
    (CommandOver /\ cmd.stage = 1) =>
        /\ updates = ExpectedUpdates
        /\ status = "written" => final_rows = ExpectedFinal

\* three jobs were drained in the reverse of their submission order
C2_Witness ==
    /\ CommandOver
    /\ cmd.stage = 1
    /\ status = "written"
    /\ drained = <<3, 2, 1>>
    /\ OkJobs = {1, 3}

\* C3: while the pool runs, a step that changes the update map is one
\* iteration of the completion loop, in which no pool thread acts and which
\* adds one entry and rewrites none; a step of a pool thread leaves the
\* update map and the rows unchanged
C3_SingleWriter ==
    [][pc = "pool" =>
          /\ updates' # updates =>
                /\ Len(drained') = Len(drained) + 1
                /\ jobs' = jobs
                /\ Cardinality(DOMAIN updates') = Cardinality(DOMAIN updates) + 1
                /\ \A k \in DOMAIN updates : updates'[k] = updates[k]
          /\ jobs' # jobs =>
                /\ updates' = updates
                /\ all_rows' = all_rows
                /\ target_rows' = target_rows]_vars

\* the map has an entry while a pool thread is still running a job
C3_Witness ==
    /\ pc = "pool"
    /\ updates # <<>>
    /\ \E j \in DOMAIN jobs : jobs[j].st = "running"

(***************************************************************************)
(* Claims about _merge_rows.                                               *)
(***************************************************************************)
\* C4: for every list of rows and every update map, _merge_rows returns a
\* list of the same length in which position i holds the update filed under
\* the key of row i when there is one, and row i itself otherwise
C4_MergeKeepsShape ==
    pc = "merged" =>
        /\ Len(final_rows) = Len(all_rows)
        /\ \A i \in 1..Len(all_rows) :
              LET key == IF "__row" \in DOMAIN all_rows[i] THEN all_rows[i]["__row"]
                         ELSE 0
              IN  IF key \in DOMAIN updates
                  THEN final_rows[i] = updates[key]
                  ELSE final_rows[i] = all_rows[i]

\* a merge of three rows out of key order, the middle one updated, with an
\* update under a key that no row has
C4_Witness ==
    /\ pc = "merged"
    /\ Len(all_rows) = 3
    /\ all_rows[1] = MergeRow(4)
    /\ all_rows[2] = MergeRow(2)
    /\ all_rows[3] = MergeRow(0)
    /\ DOMAIN updates = {2, 3}
    /\ final_rows[2] = updates[2]

(***************************************************************************)
(* Claims about the decision cascade.                                      *)
(***************************************************************************)
CascadeOver == casPc \in {"done", "parsed"}
Strategies == {calls[i].strategy : i \in DOMAIN calls}
Rank(strategy) ==
    CASE strategy = "openai" -> 1 [] strategy = "perplexity" -> 2
      [] strategy = "heuristic" -> 3
KeySet(key) == key \notin {NoField, ""}
FailedCall(i) == calls[i].outcome.kind = "raise"

\* C5: the strategies are invoked in the order OpenAI, Perplexity,
\* heuristic; an unconfigured provider is never invoked; Perplexity is
\* invoked only if OpenAI is unconfigured or failed; the heuristic is used
\* only if every configured provider failed or none is configured; the
\* first strategy that succeeds ends the cascade and its decision is
\* returned; the call never raises
C5_CascadeOrder ==
    CascadeOver =>
        /\ returned.kind = "ok"
        /\ calls # <<>>
        /\ \A i, k \in DOMAIN calls : i < k => Rank(calls[i].strategy) < Rank(calls[k].strategy)
        /\ "openai" \in Strategies <=> KeySet(settings.openai_api_key)
        /\ "perplexity" \in Strategies <=>
              /\ KeySet(settings.perplexity_api_key)
              /\ \/ ~KeySet(settings.openai_api_key)
                 \/ \E i \in DOMAIN calls : calls[i].strategy = "openai" /\ FailedCall(i)
        /\ "heuristic" \in Strategies <=>
              \A i \in DOMAIN calls : calls[i].strategy # "heuristic" => FailedCall(i)
        /\ \A i \in DOMAIN calls : FailedCall(i) <=> i < Len(calls)
        /\ returned = calls[Len(calls)].outcome

\* both providers were configured and failed, the first at the transport and
\* the second with a list for a document, and the heuristic decided
C5_Witness ==
    /\ CascadeOver
    /\ Len(calls) = 3
    /\ calls[1].outcome = Raise("APIError")
    /\ calls[2].outcome = Raise("AttributeError")
    /\ returned = Ok(HeuristicFallback(profile, context))

InvalidJson(content) == ~content.none /\ JsonLoads(content.lines).kind = "invalid"

\* C6: a provider response that is not valid JSON makes the strict parse
\* raise, the cascade goes on to the next strategy and returns a decision;
\* the lenient parse of such a content returns the default decision and
\* never raises that error
C6_StrictRaisesLenientDefaults ==
    /\ CascadeOver =>
          \A i \in DOMAIN calls :
              (calls[i].parsed /\ InvalidJson(calls[i].content)) =>
                  /\ calls[i].outcome = Raise("ValueError")
                  /\ i < Len(calls)
                  /\ Rank(calls[i + 1].strategy) > Rank(calls[i].strategy)
                  /\ returned.kind = "ok"
    /\ casPc = "parsed" =>
          /\ lenient # Raise("ValueError")
          /\ InvalidJson(lenientIn) =>
                /\ lenient.kind = "ok"
                /\ lenient.value.summary = Lit("Summary unavailable.", 20)
                /\ lenient.value.insights = "No insights returned."
                /\ lenient.value.raw_response = Str(<<EmptyDict>>)

\* OpenAI answered with a fenced document and Perplexity with prose, the
\* heuristic decided, and the lenient parse was given the fenced document
C6_Witness ==
    /\ casPc = "parsed"
    /\ Len(calls) = 3
    /\ calls[1].content = Str(<<FenceOpen, JsonSummary, FenceClose>>)
    /\ calls[2].content = Str(<<"not json">>)
    /\ calls[3].strategy = "heuristic"
    /\ lenientIn = Str(<<FenceOpen, JsonSummary, FenceClose>>)
    /\ lenient.kind = "ok"

(***************************************************************************)
(* Claims about the dossier retries and the resume option.                 *)
(***************************************************************************)
\* C7: build_company_dossier never makes a 4th attempt, and when it raises
\* it has made 3 attempts, each of which failed, has slept 1.5 s, 3.0 s and
\* 4.5 s, and raises from the error of the 3rd
C7_ThreeAttempts ==
    \A j \in DOMAIN jobs :
        /\ jobs[j].calls <= 3
        /\ jobs[j].last_error = 3 => jobs[j].sleeps = <<15, 30, 45>>
        /\ jobs[j].raised # 0 =>
              /\ jobs[j].calls = 3
              /\ jobs[j].sleeps = <<15, 30, 45>>
              /\ jobs[j].raised = 3

C7_Witness == \E j \in DOMAIN jobs : jobs[j].raised = 3

\* C8: when build_company_dossier has raised, collect_dossier has returned a
\* row whose dossier_error is the failure message cut to 500 characters, the
\* loop has filed it in the update map, and the command ends only when every
\* selected row has been processed
C8_ExhaustionSurfaced ==
    \A j \in DOMAIN jobs :
        jobs[j].raised # 0 =>
            /\ jobs[j].st = "ok"
            /\ jobs[j].result["dossier_error"].s =
                  <<"Perplexity dossier failed after retries for ", "company">>
            /\ jobs[j].result["dossier_error"].n > 0
            /\ jobs[j].result["dossier_error"].n <= 500
            /\ jobs[j].result["dossier_error"].n = 500
                  \/ jobs[j].result["dossier_error"].n
                        = 44 + target_rows[j]["company"].n
            /\ updates[KeyOf(j)] = jobs[j].result
            /\ pc = "idle" => \A k \in DOMAIN jobs : Completed(k)

\* the dossier of the first row (a name longer than 500 characters) failed
\* after all retries, the rows after it were processed and the rows written
C8_Witness ==
    /\ CommandOver
    /\ cmd.stage = 3
    /\ status = "written"
    /\ Len(jobs) = 3
    /\ jobs[1].raised # 0
    /\ jobs[1].result["dossier_error"].n = 500
    /\ jobs[2].raised # 0
    /\ jobs[2].result["dossier_error"].n = 46
    /\ jobs[3].st = "ok"
    /\ jobs[3].raised = 0

\* the marker of the row holds the id of the stage
StageIdOf(st) == CASE st = 1 -> <<"1">> [] st = 2 -> <<"2">> [] st = 3 -> <<"3">>
MarkerHolds(row, id) ==
    LET items == MarkerItems(MarkerOf(row))
    IN  \E i \in 1..Len(items) : Strip(items[i]) = id

ParsedIds(m) ==
    IF m.kind = "none" \/ m.val = <<>> THEN {}
    ELSE IF m.kind = "list"
         THEN {Strip(m.val[i]) : i \in 1..Len(m.val)} \ {<<>>}
         ELSE LET pieces == SplitComma(m.val, <<>>)
              IN  {Strip(pieces[i]) : i \in 1..Len(pieces)} \ {<<>>}

\* the sequences that hold every element of S once
Orderings(S) ==
    {f \in [1..Cardinality(S) -> S] : \A i, k \in DOMAIN f : i # k => f[i] # f[k]}

\* C11: _mark_stage(m, s) is the ids of m united with {s}, each once, joined
\* with commas; "2,3" marked with "1" gives "1,2,3"
C11_SerializesUnion ==
    mkPc \in {"once", "twice"} =>
        /\ \E f \in Orderings(ParsedIds(marker) \cup {stage}) : once = JoinComma(f)
        /\ (marker = StrMarker(<<"2", ",", "3">>) /\ stage = <<"1">>) =>
               once = <<"1", ",", "2", ",", "3">>

\* "2,3" was marked with "1"
C11_Witness ==
    /\ mkPc = "once"
    /\ marker = StrMarker(<<"2", ",", "3">>)
    /\ stage = <<"1">>
    /\ once = <<"1", ",", "2", ",", "3">>

\* no id of the marker holds a comma, so the ids of the result are its
\* pieces between commas
CommaFreeIds(m) ==
    \A id \in ParsedIds(m) : \A i \in 1..Len(id) : id[i] # ","

\* C12: in the string _mark_stage returns every numeric id stands before
\* every id that is not numeric, and the numeric ids ascend
C12_NumericFirst ==
    (mkPc \in {"once", "twice"} /\ CommaFreeIds(marker)) =>
        LET ids == SplitComma(once, <<>>)
        IN  \A i, k \in 1..Len(ids) :
                i < k =>
                    /\ ~(IsDigit(ids[k]) /\ ~IsDigit(ids[i]))
                    /\ (IsDigit(ids[i]) /\ IsDigit(ids[k])) =>
                           ToInt(ids[i]) <= ToInt(ids[k])

(***************************************************************************)
(* Claims about _merge_software_signals.                                   *)
(***************************************************************************)
\* the software candidates of the lines of a source, as a set
SoftwareLines(texts) ==
    {StripLine(line) : line \in UNION {Range(texts[i]) : i \in DOMAIN texts}}
        \cap {"Acme Platform", "Cloud Suite"}

\* C13: the verdict is the flag of the decision or a non-empty product
\* list: true when the flag is true, true when a candidate survives, false
\* only when the flag is false and the list is empty
C13_VerdictIsOr ==
    callPc = "done" =>
        /\ callOut[1].has_software =
              (callIn.llm_payload.has_software \/ callOut[1].software_list # <<>>)
        /\ callIn.llm_payload.has_software => callOut[1].has_software
        /\ (SoftwareLines(callIn.pages) \cup SoftwareLines(callIn.news)
              \cup SoftwareLines(callIn.posts)) # {} => callOut[1].has_software

\* the decision says no and a page names a platform: the verdict is yes
C13_Witness ==
    /\ callPc = "done"
    /\ ~callIn.llm_payload.has_software
    /\ callIn.llm_payload.software_products = <<>>
    /\ callIn.pages = <<<<"hello", "Acme Platform">>>>
    /\ callIn.news = <<>>
    /\ callOut[1].has_software
    /\ callOut[1].software_list = <<"Acme Platform">>

\* C14: the list is the union of the declared products and the software
\* candidates of every source, without duplicates, ascending, and the same
\* for the texts in another order
C14_SortedUnion ==
    /\ callPc \in {"done", "again"} =>
          LET list == callOut[1].software_list
          IN  /\ Range(list) = Range(callIn.llm_payload.software_products)
                                  \cup SoftwareLines(callIn.pages)
                                  \cup SoftwareLines(callIn.news)
                                  \cup SoftwareLines(callIn.posts)
              /\ \A i, k \in 1..Len(list) :
                     i < k => ProductRank(list[i]) < ProductRank(list[k])
    /\ callPc = "again" => callOut[2].software_list = callOut[1].software_list

\* a product declared and found in two sources in several spellings, next to
\* others: the list names each once, in order, also for the permuted call
C14_Witness ==
    /\ callPc = "again"
    /\ callIn.llm_payload.software_products = <<"Zeta App", "Acme Platform">>
    /\ callIn.pages = <<<<"Cloud Suite", " Acme Platform ">>>>
    /\ callIn.news = <<<<"Acme Platform">>>>
    /\ callIn.posts = <<<<"Best product">>>>
    /\ callOut[2].software_list = <<"Acme Platform", "Cloud Suite", "Zeta App">>

(***************************************************************************)
(* Claims about collect_profile on a row without name and domain.          *)
(***************************************************************************)
\* C15: for a row whose name and domain are both empty the candidate url
\* list is empty, the site snapshot has no page, and the has_software
\* written is false when the heuristic produced the decision
C15_EmptyRowNoSoftware ==
    (callPc = "done" /\ callOut[1].company.name = "" /\ callOut[1].company.domain = "") =>
        /\ callOut[1].candidates = <<>>
        /\ callOut[1].pages = <<>>
        /\ callOut[1].source = "heuristic" => ~callOut[1].has_software

\* a row of blank cells whose site would name a platform, no provider
C15_Witness ==
    /\ callPc = "done"
    /\ callIn.row = [company |-> "  ", domain |-> ""]
    /\ callIn.openai_api_key = NoField
    /\ callIn.web.http = <<<<"Acme Platform">>>>
    /\ callOut[1].source = "heuristic"
    /\ callOut[1].candidates = <<>>
    /\ ~callOut[1].has_software

(***************************************************************************)
(* Claims about _parse_dossier_json.                                       *)
(***************************************************************************)
\* the object of the scenario in a fence, the fence markers on lines of
\* their own or on the line of the object
FencedOwnLines == <<<<FenceOpen>>, <<JsonDossier>>, <<FenceClose>>>>
FencedSameLine == <<<<FenceOpen, JsonDossier, FenceClose>>>>

\* C16: for a JSON object in a Markdown fence, the markers on their own
\* lines or on the line of the object, _parse_dossier_json returns the
\* summary and the wins of the object ("ok" and ["a"])
C16_FenceStripped ==
    (callPc = "done" /\ callIn \in {FencedOwnLines, FencedSameLine}) =>
        /\ callOut[1].kind = "ok"
        /\ callOut[1].payload.summary = Lit("ok", 2)
        /\ callOut[1].payload.wins = <<Lit("a", 1)>>

(***************************************************************************)
(* Claims about the API source adapters.                                   *)
(***************************************************************************)
EmptyFetch(out) == out.kind = "ok" /\ out.overview = "" /\ out.items = 0

\* C17: an adapter whose credential is missing returns its empty result
\* and issues no request; an adapter one of whose requests fails at the
\* transport or with an HTTP status (a timeout included) returns its empty
\* result and does not raise
C17_AdaptersDegrade ==
    callPc = "done" =>
        /\ callIn.key \in {NoField, ""} =>
              (EmptyFetch(callOut[1]) /\ callOut[1].requests = 0)
        /\ \A i \in 1..callOut[1].requests :
              callIn.responses[i].error \in {"ConnectError", "ReadTimeout", "HTTPStatusError"}
                  => EmptyFetch(callOut[1])

\* the search adapter got an overview, then its second request timed out
C17_Witness ==
    /\ callPc = "done"
    /\ callIn.adapter = "serp"
    /\ callIn.key = "key"
    /\ callIn.responses[1] = Body("overview", 0)
    /\ callIn.responses[2] = Failed("ReadTimeout")
    /\ callOut[1].requests = 2
    /\ EmptyFetch(callOut[1])

(***************************************************************************)
(* Claims about the configuration check of the dossier command.            *)
(***************************************************************************)
\* C18: a dossier command started without a Perplexity key ends with the
\* configuration error at once: it has fetched no row, selected and processed
\* none, and the step writes neither the sheet nor a snapshot.
C18_KeyCheckedFirst ==
    [][(cmd'.stage = 3 /\ ~cmd'.key /\ runs' = runs + 1) =>
          /\ status' = "config_error"
          /\ pc' = "idle"
          /\ all_rows' = <<>>
          /\ target_rows' = <<>>
          /\ jobs' = <<>>
          /\ updates' = <<>>
          /\ final_rows' = <<>>
          /\ sheet' = sheet
          /\ exported' = exported]_vars

\* C18 witness: the dossier command stopped on the missing key in front of a
\* sheet that has rows.
C18_Witness ==
    /\ cmd.stage = 3
    /\ ~cmd.key
    /\ status = "config_error"
    /\ pc = "idle"
    /\ sheet.rows # <<>>
    /\ all_rows = <<>>

(***************************************************************************)
(* Claims about the addressing key "__row".                                *)
(***************************************************************************)
HasRowKey(row) == "__row" \in DOMAIN row

\* C19: every row fetch_rows returned carries "__row" (its sheet line); every
\* row a stage entry point returned carries the "__row" of its input row; the
\* table batch_update wrote and the exported snapshot have no "__row" column.
C19_KeyNeverWritten ==
    /\ \A i \in DOMAIN all_rows : HasRowKey(all_rows[i]) /\ all_rows[i]["__row"] = i + 1
    /\ \A j \in DOMAIN jobs :
          jobs[j].st = "ok" =>
              /\ HasRowKey(target_rows[j])
              /\ HasRowKey(jobs[j].result)
              /\ jobs[j].result["__row"] = target_rows[j]["__row"]
    /\ "__row" \notin sheet.header
    /\ \A i \in DOMAIN sheet.rows : ~HasRowKey(sheet.rows[i])
    /\ \A i \in DOMAIN exported : ~HasRowKey(exported[i])

\* C19 witness: a command has written the sheet and the snapshot from rows
\* that carry the key, one of them the result of a stage entry point.
C19_Witness ==
    /\ status = "written"
    /\ exported # <<>>
    /\ sheet.rows # <<>>
    /\ \E i \in DOMAIN final_rows : HasRowKey(final_rows[i])
    /\ \E j \in DOMAIN jobs : jobs[j].st = "ok" /\ HasRowKey(jobs[j].result)

(***************************************************************************)
(* Claims about _evaluate_relevance.                                       *)
(***************************************************************************)
\* the six inputs the verdict may depend on
RelevanceInputs(call) ==
    <<call.profile, call.payload.business_model, call.payload.market_focus,
      call.payload.category, call.payload.iso_services, call.has_software>>

\* C20: any two calls of _evaluate_relevance that agree on profile,
\* business_model, market_focus, category, services and has_software returned
\* the same boolean, whatever the decision's other fields were and wherever
\* the two calls stand among the calls made.
C20_RelevancePure ==
    callPc = "relevance" =>
        \A i, j \in DOMAIN callIn :
            RelevanceInputs(callIn[i]) = RelevanceInputs(callIn[j])
                => callOut[i] = callOut[j]

\* C20 witness: two calls that agree on the six inputs and differ in the
\* decision's own verdict, both relevant.
C20_Witness ==
    /\ callPc = "relevance"
    /\ Len(callIn) = 2
    /\ RelevanceInputs(callIn[1]) = RelevanceInputs(callIn[2])
    /\ callIn[1].payload.has_software # callIn[2].payload.has_software
    /\ callIn[1].profile = "iso_msp"
    /\ callOut[1] /\ callOut[2]

(***************************************************************************)
(* Claims about fenced provider responses in the decision cascade.         *)
(***************************************************************************)
FencedJson == Str(<<FenceOpen, JsonSummary, FenceClose>>)

\* C21: a provider response that is valid JSON between the lines of a
\* Markdown code fence is accepted: the provider's call returns the decision
\* of the JSON document and is the last strategy of the cascade.
C21_FencedResponseAccepted ==
    CascadeOver =>
        \A i \in DOMAIN calls :
            (calls[i].parsed /\ calls[i].content = FencedJson) =>
                /\ calls[i].outcome.kind = "ok"
                /\ calls[i].outcome.value.summary = Lit("s", 1)
                /\ i = Len(calls)

(***************************************************************************)
(* Claims about the heuristic reconstruction in collect_dossier.           *)
(***************************************************************************)
\* the empty payload: the sentinel summary and no item in any list
EmptyPayload(payload) ==
    /\ payload.summary = Sentinel
    /\ payload.wins = <<>> /\ payload.setbacks = <<>>
    /\ payload.workforce_changes = <<>> /\ payload.regulatory = <<>>
    /\ payload.notable_quotes = <<>> /\ payload.sources = <<>>

\* the error note collect_dossier holds for job j
ErrorNoteOf(j) ==
    IF jobs[j].raised # 0 THEN RetriesMessage(target_rows[j]) ELSE EmptyTxt

\* the dossier fields of job j's result are those of the reconstruction
HeuristicInvoked(j) ==
    \A f \in DossierFields :
        jobs[j].result[f] = HeuristicDossierFromRow(target_rows[j], ErrorNoteOf(j))[f]

\* C22: collect_dossier takes the dossier fields from the heuristic
\* reconstruction exactly when build_company_dossier returned (did not raise)
\* a payload with the sentinel summary and all six lists empty; then the job
\* is over (no further attempt) and dossier_error is not empty.
C22_HeuristicIffEmptyPayload ==
    \A j \in DOMAIN jobs :
        (cmd.stage = 3 /\ jobs[j].st = "ok") =>
            /\ HeuristicInvoked(j) <=>
                  (jobs[j].payload # <<>> /\ EmptyPayload(jobs[j].payload[1]))
            /\ HeuristicInvoked(j) =>
                  /\ jobs[j].result["dossier_error"] # EmptyTxt
                  /\ ~(pc = "dossier" /\ idx + 1 = j)

(***************************************************************************)
(* Claims about the sleeps of build_company_dossier.                       *)
(***************************************************************************)
\* C23: build_company_dossier sleeps only between two attempts: 1.5 s after
\* the failed attempt 1 and 3.0 s after the failed attempt 2; when it raises
\* after the 3rd failed attempt it has slept twice, not after the 3rd.
C23_SleepsOnlyBetweenAttempts ==
    \A j \in DOMAIN jobs :
        /\ \A i \in DOMAIN jobs[j].sleeps :
              /\ jobs[j].sleeps[i] = BackoffTenths * i
              /\ i < Attempts
        /\ jobs[j].raised # 0 => jobs[j].sleeps = <<15, 30>>

(***************************************************************************)
(* Claims about a dossier attempt that succeeds.                           *)
(***************************************************************************)
\* build_company_dossier returned a payload for job j
Returned(j) == jobs[j].payload # <<>>

\* C24: when attempt k is the first to succeed, build_company_dossier has
\* made k invocations and k-1 sleeps (1.5*i s after the failed attempt i),
\* collect_dossier works on the payload of attempt k, and the job makes no
\* attempt and no sleep afterwards.
C24_SuccessAtAttemptK ==
    /\ [](\A j \in DOMAIN jobs :
            Returned(j) =>
                /\ jobs[j].calls \in 1..Attempts
                /\ jobs[j].raised = 0
                /\ Len(jobs[j].sleeps) = jobs[j].calls - 1
                /\ \A i \in DOMAIN jobs[j].sleeps : jobs[j].sleeps[i] = BackoffTenths * i
                /\ jobs[j].result = DossierResult(target_rows[j], jobs[j].payload[1], EmptyTxt)
                /\ ~(pc = "dossier" /\ idx + 1 = j))
    /\ [][\A j \in DOMAIN jobs :
            Returned(j) => (j \in DOMAIN jobs' /\ jobs'[j] = jobs[j])]_vars

\* C24 witness: the 3rd attempt succeeded after two failed ones and the
\* command went on to its end.
C24_Witness ==
    /\ pc = "idle"
    /\ \E j \in DOMAIN jobs :
          /\ Returned(j)
          /\ jobs[j].calls = 3
          /\ jobs[j].sleeps = <<15, 30>>
          /\ jobs[j].payload[1] = FilledPayload

(***************************************************************************)
(* Claims about the fetches of the profile stage for an empty row.         *)
(***************************************************************************)
\* C25: for a row whose name and domain are both empty, collect_profile's
\* site scraper and search-overview fetcher issue no request, whatever the
\* credentials are.
C25_NoFetchForEmptyRow ==
    (callPc = "fetched" /\ callOut[1].company.name = "" /\ callOut[1].company.domain = "") =>
        /\ callOut[1].scrape_requests = 0
        /\ callOut[1].serp_requests = 0

(***************************************************************************)
(* Claims about the enums of the decision.                                 *)
(***************************************************************************)
\* C26: for every profile and every provider response, the decision's
\* business_model is one of product, service, platform, marketplace, hybrid,
\* other and its market_focus one of B2B, B2C, B2B2C, B2G, MIXED, OTHER.
C26_EnumsNormalized ==
    callPc = "normalized" =>
        /\ callOut[1].business_model \in allowed_models
        /\ callOut[1].market_focus \in allowed_markets

(***************************************************************************)
(* Claims about the marker after several stage calls.                      *)
(***************************************************************************)
\* the ids of the stages called so far
StagesRan == {StageIdOf(callIn.stages[i]) : i \in DOMAIN callIn.stages}

\* the sequences of stage calls that call the same stages, in any order and
\* number
SameStages(stages) ==
    {other \in UNION {[1..n -> 1..3] : n \in 1..MaxStageCalls} :
        {other[i] : i \in DOMAIN other} = {stages[i] : i \in DOMAIN stages}}

\* C27: after any sequence of successful stage calls on a row read from the
\* sheet, updated_stages holds the ids the row had at first and the ids of
\* the stages called, each once, trimmed and joined with commas; hence no
\* call removed an id; and every other order or repetition of the same
\* stages gives the same marker.
C27_StagesAccumulate ==
    (callPc = "stages" /\ callIn.stages # <<>>) =>
        LET now == MarkerOf(callOut[1])
            ids == ParsedIds(MarkerOf(callIn.row)) \cup StagesRan
            pieces == SplitComma(now.val, <<>>)
        IN  /\ now.kind = "str"
            /\ ParsedIds(now) = ids
            /\ Len(pieces) = Cardinality(ids)
            /\ \A i \in DOMAIN pieces : pieces[i] = Strip(pieces[i]) /\ pieces[i] # <<>>
            /\ \A other \in SameStages(callIn.stages) :
                  MarkerOf(ApplyStages(callIn.row, other)) = now

\* C27 witness: the row came with "3,1"; dossier, profile and media were
\* called in this order and the marker is "1,2,3".
C27_Witness ==
    /\ callPc = "stages"
    /\ MarkerOf(callIn.row) = StrMarker(<<"3", ",", "1">>)
    /\ callIn.stages = <<3, 1, 2>>
    /\ MarkerOf(callOut[1]) = StrMarker(<<"1", ",", "2", ",", "3">>)

(***************************************************************************)
(* Claims about the write of a stage run.                                  *)
(***************************************************************************)
\* C28: a step changes the sheet only as the one write that ends a running
\* command; that write comes when every selected row's job has finished and
\* at least one succeeded; a command that ends with no job succeeded leaves
\* the sheet exactly as it was.
C28_WrittenOnceAtEnd ==
    [][/\ sheet' # sheet =>
             /\ status = "running"
             /\ status' = "written"
             /\ pc' = "idle"
             /\ runs' = runs
       /\ (status' = "written" /\ status # "written") =>
             /\ \A j \in DOMAIN jobs : Completed(j)
             /\ \E j \in DOMAIN jobs : jobs[j].st = "ok"
             /\ jobs' = jobs
             /\ sheet' = BatchUpdate(sheet, final_rows')
       /\ (pc # "idle" /\ pc' = "idle" /\ \A j \in DOMAIN jobs : jobs[j].st # "ok") =>
             /\ status' = "no_updates"
             /\ sheet' = sheet]_vars

\* C28 witness: the second command of a session has written the sheet, with
\* one job failed and one succeeded.
C28_Witness ==
    /\ runs = 2
    /\ pc = "idle"
    /\ status = "written"
    /\ \E j \in DOMAIN jobs : jobs[j].st = "exc"
    /\ \E j \in DOMAIN jobs : jobs[j].st = "ok"

(***************************************************************************)
(* Claims about the keys of the collection loop and of _merge_rows.        *)
(***************************************************************************)
\* the places of all_rows that hold the row of a job that succeeded
UpdatedPlaces == {PlaceOf(j) : j \in {k \in DOMAIN jobs : jobs[k].st = "ok"}}

\* C29: for the rows of a run, the key the loop files job j under (the row's
\* "__row", else j) is the key _merge_rows looks that row up with (its
\* "__row", else 0); so once the rows are merged every job that succeeded
\* has its result at its row's place and every other place holds the row as
\* fetched.
C29_KeysAgree ==
    /\ \A j \in DOMAIN jobs :
          /\ RowKey(target_rows[j], j) = RowKey(all_rows[PlaceOf(j)], 0)
          /\ target_rows[j] = all_rows[PlaceOf(j)]
    /\ (pc = "idle" /\ status = "written") =>
          /\ Len(final_rows) = Len(all_rows)
          /\ \A j \in DOMAIN jobs :
                jobs[j].st = "ok" => final_rows[PlaceOf(j)] = jobs[j].result
          /\ \A i \in DOMAIN all_rows :
                i \notin UpdatedPlaces => final_rows[i] = all_rows[i]

\* C29 witness: a resume run selected only the second row of the sheet, so
\* job 1 works on the row with "__row" 3, and its result was merged in at
\* place 2 while the first row stayed as fetched.
C29_Witness ==
    /\ pc = "idle"
    /\ status = "written"
    /\ cmd.resume
    /\ Len(all_rows) = 2
    /\ Len(jobs) = 1
    /\ target_rows[1]["__row"] = 3
    /\ jobs[1].st = "ok"
    /\ final_rows[2] = jobs[1].result
    /\ final_rows[1] = all_rows[1]

(***************************************************************************)
(* Claims about the fields a stage leaves alone.                           *)
(***************************************************************************)
\* the fields of the model's rows whose name begins with "dossier_"
DossierNamed == DossierFields \cup {"dossier_refreshed_at"}

\* the stage of the call a step makes
CalledStage(stages) == stages[Len(stages)]

\* collect_dossier changed nothing but the eight dossier fields,
\* updated_stages and last_updated
DossierFrame(before, after) ==
    LET own == DossierFields \cup {"updated_stages", "last_updated"}
    IN  /\ DOMAIN after \ own = DOMAIN before \ own
        /\ \A f \in DOMAIN before \ own : after[f] = before[f]

\* C30 as stated: a call of collect_profile leaves every field named
\* dossier_* that the row holds as it is, and a call of collect_dossier
\* changes nothing but the eight dossier fields, updated_stages and
\* last_updated.
C30_DossierNamedKept ==
    [][callPc = "stages" =>
          /\ CalledStage(callIn'.stages) = 1 =>
                \A f \in DOMAIN callOut[1] \cap DossierNamed :
                    f \in DOMAIN callOut'[1] /\ callOut'[1][f] = callOut[1][f]
          /\ CalledStage(callIn'.stages) = 3 => DossierFrame(callOut[1], callOut'[1])]_vars

\* C30 amended: a call of collect_profile leaves each of the eight dossier
\* result fields that the row holds as it is (the obsolete
\* dossier_refreshed_at is removed), and a call of collect_dossier changes
\* nothing but the eight dossier fields, updated_stages and last_updated.
C30_DossierResultsKept ==
    [][callPc = "stages" =>
          /\ CalledStage(callIn'.stages) = 1 =>
                \A f \in DOMAIN callOut[1] \cap DossierFields :
                    f \in DOMAIN callOut'[1] /\ callOut'[1][f] = callOut[1][f]
          /\ CalledStage(callIn'.stages) = 3 => DossierFrame(callOut[1], callOut'[1])]_vars

\* C30 witness: collect_dossier filled the dossier of a row, collect_profile
\* was called on the result and the dossier is still there.
C30_Witness ==
    /\ callPc = "stages"
    /\ callIn.stages = <<3, 1>>
    /\ "dossier_summary" \notin DOMAIN callIn.row
    /\ callOut[1]["dossier_summary"] = FilledPayload.summary
    /\ callOut[1]["baseline_summary"] = Decision.summary

====
